---- MODULE Spec2Model ----
(***************************************************************************)
(* Symbol resolution of the Miden Assembly extension: the file index       *)
(* (parseFile), the namespace directory (parseBuildRsNamespaces), the      *)
(* cargo registry search (searchCargoCache), the path resolver             *)
(* (resolveModulePath), the symbol locator (findProcedureSource) and the   *)
(* two providers, over a file system that changes underneath them.         *)
(*                                                                         *)
(* Representation.  A path is a sequence of segment strings (<<>> is the   *)
(* file-system root).  A file is a sequence of lines and a line is a       *)
(* sequence of tokens: identifiers, the punctuation of Punct, and " " for  *)
(* a run of white space.  The regular expressions of the source are        *)
(* matchers over those tokens.  An import expression "a::b::c" is the      *)
(* sequence <<"a","b","c">> of its split('::').  JavaScript Maps whose     *)
(* iteration order is observable are sequences of <<key, value>> pairs in  *)
(* insertion order.  null is Null (paths) or NoLoc (locations).            *)
(* A local constant of the source is Bind(value, LAMBDA name : ...).       *)
(***************************************************************************)
EXTENDS Integers, Sequences, FiniteSets, TLC

VARIABLES
    fs,             \* the disk: path -> content, for every existing file
    fileCache,      \* fileCache: path -> ParsedFile
    moduleCache,    \* moduleCache: <<currentFile, importPath>> -> path | Null
    namespaceCache, \* namespaceCache: workspaceRoot -> (last segment -> asmDir)
    op,             \* the last operation and its arguments
    ret,            \* what the last operation returned
    probes,         \* what the last resolveModulePath consulted
    hist,           \* first results since the last invalidation (history)
    readdirOrder    \* the order in which the file system lists a directory

vars == <<fs, fileCache, moduleCache, namespaceCache, op, ret, probes, hist,
          readdirOrder>>

----------------------------------------------------------------------------
(* Values *)

Null == <<"<null>">>
NoLoc == [file |-> Null, line |-> -1, col |-> -1]
NoAlias == ""
EmptyMap == <<>>
EmptyFun == [x \in {} |-> x]

\* const name = v; F(name)
Bind(v, F(_)) == F(v)

MinOf(S) == CHOOSE i \in S : \A j \in S : i <= j

(* Ordered maps: JavaScript Map / object with string keys *)
MapHas(m, k) == \E i \in DOMAIN m : m[i][1] = k
MapGet(m, k) == m[CHOOSE i \in DOMAIN m : m[i][1] = k][2]
MapSet(m, k, v) ==
    IF MapHas(m, k)
    THEN [i \in DOMAIN m |-> IF m[i][1] = k THEN <<k, v>> ELSE m[i]]
    ELSE Append(m, <<k, v>>)

FunSet(f, k, v) == [x \in (DOMAIN f) \cup {k} |-> IF x = k THEN v ELSE f[x]]
FunDel(f, k) == [x \in (DOMAIN f) \ {k} |-> f[x]]

----------------------------------------------------------------------------
(* Tokens *)

Punct == {"", " ", "::", "->", "=", "#", "#!", "\"", "."}
DollarNames == {"$kernel"}
UpperNames == {"MAX", "MAX_ASSETS"}

Tok(line, i) == IF i \in DOMAIN line THEN line[i] ELSE ""
\* [a-zA-Z_][a-zA-Z0-9_]*
IsIdent(t) == t \notin Punct /\ t \notin DollarNames
\* [a-zA-Z_$][a-zA-Z0-9_]*
IsIdentOrDollar(t) == t \notin Punct
\* [A-Z_][A-Z0-9_]*
IsUpperSnake(t) == t \in UpperNames

RECURSIVE SkipWs(_, _)
\* \s* from token i: the index of the first token that is not white space
SkipWs(line, i) == IF Tok(line, i) = " " THEN SkipWs(line, i + 1) ELSE i

RECURSIVE PathEnd(_, _)
\* (?:::ident)* greedy, from the identifier at j: the index of the last segment
PathEnd(line, j) ==
    IF Tok(line, j + 1) = "::" /\ IsIdent(Tok(line, j + 2))
    THEN PathEnd(line, j + 2)
    ELSE j

\* ^\s*(?:pub\s+)? : the index after the optional pub
AfterPub(line) ==
    Bind(SkipWs(line, 1), LAMBDA i :
        IF Tok(line, i) = "pub" /\ Tok(line, i + 1) = " "
        THEN SkipWs(line, i + 1)
        ELSE i)

NoMatch == [ok |-> FALSE]

\* /^\s*use\s+([a-zA-Z_$][a-zA-Z0-9_]*(?:::[a-zA-Z_][a-zA-Z0-9_]*)*)(?:\s*->\s*([a-zA-Z_][a-zA-Z0-9_]*))?/
UseMatch(line) ==
    Bind(SkipWs(line, 1), LAMBDA u :
    Bind(SkipWs(line, u + 1), LAMBDA j :
    Bind(PathEnd(line, j), LAMBDA e :
    Bind(SkipWs(line, e + 1), LAMBDA a :
    Bind(SkipWs(line, a + 1), LAMBDA b :
        IF Tok(line, u) = "use" /\ Tok(line, u + 1) = " " /\ IsIdentOrDollar(Tok(line, j))
        THEN [ok |-> TRUE,
              fullPath |-> [k \in 1..((e - j) \div 2 + 1) |-> line[j + 2 * (k - 1)]],
              alias |-> IF Tok(line, a) = "->" /\ IsIdent(Tok(line, b))
                        THEN line[b] ELSE NoAlias]
        ELSE NoMatch)))))

\* /^\s*(?:pub\s+)?use\s+(ident)::(ident)->(ident)/
ReexportMatch(line) ==
    Bind(AfterPub(line), LAMBDA u :
    Bind(SkipWs(line, u + 1), LAMBDA m :
        IF /\ Tok(line, u) = "use" /\ Tok(line, u + 1) = " "
           /\ IsIdent(Tok(line, m)) /\ Tok(line, m + 1) = "::"
           /\ IsIdent(Tok(line, m + 2)) /\ Tok(line, m + 3) = "->"
           /\ IsIdent(Tok(line, m + 4))
        THEN [ok |-> TRUE, module |-> line[m], originalName |-> line[m + 2],
              exportedName |-> line[m + 4]]
        ELSE NoMatch))

\* /^\s*(?:pub\s+)?proc\s+(ident)/ : the name, or "" when the line does not match
ProcKeywordName(line) ==
    Bind(AfterPub(line), LAMBDA p :
    Bind(SkipWs(line, p + 1), LAMBDA n :
        IF Tok(line, p) = "proc" /\ Tok(line, p + 1) = " " /\ IsIdent(Tok(line, n))
        THEN line[n] ELSE ""))

\* /^\s*export\.(ident)/ : the name, or ""
ExportName(line) ==
    Bind(SkipWs(line, 1), LAMBDA i :
        IF Tok(line, i) = "export" /\ Tok(line, i + 1) = "." /\ IsIdent(Tok(line, i + 2))
        THEN line[i + 2] ELSE "")

\* /^\s*(?:pub\s+)?proc\s+(ident)|^\s*export\.(ident)/ : procMatch[1] || procMatch[2]
ProcMatch(line) ==
    Bind(ProcKeywordName(line), LAMBDA n : IF n # "" THEN n ELSE ExportName(line))

\* /^\s*(?:pub\s+)?const\s+([A-Z_][A-Z0-9_]*)\s*=/ : the name, or ""
ConstMatch(line) ==
    Bind(AfterPub(line), LAMBDA c :
    Bind(SkipWs(line, c + 1), LAMBDA n :
    Bind(SkipWs(line, n + 1), LAMBDA q :
        IF /\ Tok(line, c) = "const" /\ Tok(line, c + 1) = " "
           /\ IsUpperSnake(Tok(line, n)) /\ Tok(line, q) = "="
        THEN line[n] ELSE "")))

----------------------------------------------------------------------------
(* File Index: parseFile *)

EmptySummary ==
    [imports |-> EmptyMap, procedures |-> EmptyFun, reexports |-> EmptyFun,
     constants |-> EmptyFun]

\* imports.set(moduleName, fullPath); if (alias) imports.set(alias, fullPath)
AddImport(imports, um) ==
    IF ~um.ok THEN imports
    ELSE Bind(MapSet(imports, um.fullPath[Len(um.fullPath)], um.fullPath), LAMBDA s1 :
            IF um.alias # NoAlias THEN MapSet(s1, um.alias, um.fullPath) ELSE s1)

\* the re-exported module set to itself whether imported or not
AddReexportModuleOverwrites(imports, rm) ==
    IF rm.ok THEN MapSet(imports, rm.module, <<rm.module>>) ELSE imports

\* if (!imports.has(moduleName)) imports.set(moduleName, moduleName)
AddReexportModule(imports, rm) ==
    IF rm.ok /\ ~MapHas(imports, rm.module)
    THEN MapSet(imports, rm.module, <<rm.module>>)
    ELSE imports

\* the four matches of line i applied to the maps (i - 1 is the stored index)
ApplyMatches(acc, i, um, rm, pn, cn) ==
    [imports |-> AddReexportModule(AddImport(acc.imports, um), rm),
     procedures |-> IF pn # "" THEN FunSet(acc.procedures, pn, i - 1)
                    ELSE acc.procedures,
     reexports |-> IF rm.ok
                   THEN FunSet(acc.reexports, rm.exportedName,
                               [module |-> rm.module,
                                originalName |-> rm.originalName,
                                line |-> i - 1])
                   ELSE acc.reexports,
     constants |-> IF cn # "" THEN FunSet(acc.constants, cn, i - 1)
                   ELSE acc.constants]

\* the body of the for loop
ParseLine(acc, line, i) ==
    ApplyMatches(acc, i, UseMatch(line), ReexportMatch(line), ProcMatch(line),
                 ConstMatch(line))

RECURSIVE ParseLines(_, _, _)
ParseLines(lines, i, acc) ==
    IF i > Len(lines) THEN acc
    ELSE ParseLines(lines, i + 1, ParseLine(acc, lines[i], i))

\* the parse without the try/catch around the read: the failure reaches the
\* caller in place of a summary
ParseContentUncaught(disk, filePath) ==
    IF filePath \in DOMAIN disk
    THEN ParseLines(disk[filePath], 1, EmptySummary)
    ELSE [imports |-> EmptyMap, procedures |-> EmptyMap, reexports |-> EmptyMap,
          constants |-> EmptyMap, error |-> "ENOENT"]

\* fs.readFileSync throws on a missing file (or a directory): the maps stay empty
ParseContent(disk, filePath) ==
    IF filePath \in DOMAIN disk
    THEN ParseLines(disk[filePath], 1, EmptySummary)
    ELSE EmptySummary

----------------------------------------------------------------------------
(* Paths: path.join, path.dirname, fs.existsSync, fs.statSync, fs.readdirSync *)

RECURSIVE Normalize(_, _)
\* path.join normalises: ".." removes the segment before it (the root stays)
Normalize(done, rest) ==
    IF rest = <<>> THEN done
    ELSE IF Head(rest) = ".."
         THEN Normalize(IF done = <<>> THEN <<>> ELSE SubSeq(done, 1, Len(done) - 1),
                        Tail(rest))
         ELSE Normalize(Append(done, Head(rest)), Tail(rest))

Join(base, segs) == Normalize(base, segs)
Dirname(p) == IF p = <<>> THEN <<>> ELSE SubSeq(p, 1, Len(p) - 1)

IsPrefix(d, f) == Len(f) > Len(d) /\ SubSeq(f, 1, Len(d)) = d
IsFile(disk, p) == p \in DOMAIN disk
IsDirectory(disk, p) == p = <<>> \/ \E f \in DOMAIN disk : IsPrefix(p, f)
Exists(disk, p) == IsFile(disk, p) \/ IsDirectory(disk, p)

\* name + '.masm', on the identifiers of the model
MasmTable ==
    [a |-> "a.masm", b |-> "b.masm", c |-> "c.masm", memory |-> "memory.masm",
     bar |-> "bar.masm", mem |-> "mem.masm", blake3 |-> "blake3.masm",
     hashes |-> "hashes.masm", crypto |-> "crypto.masm", foo |-> "foo.masm",
     core |-> "core.masm", account |-> "account.masm", main |-> "main.masm",
     x |-> "x.masm", y |-> "y.masm", MAX |-> "MAX.masm",
     get_nonce |-> "get_nonce.masm",
     get_account_nonce |-> "get_account_nonce.masm",
     undefined |-> "undefined.masm", al |-> "al.masm", kernel |-> "kernel.masm",
     miden |-> "miden.masm", std |-> "std.masm"]
Masm(name) == MasmTable[name]
\* seg.replace(/\.masm$/, '')
StripMasm(seg) ==
    IF \E n \in DOMAIN MasmTable : MasmTable[n] = seg
    THEN CHOOSE n \in DOMAIN MasmTable : MasmTable[n] = seg
    ELSE seg

\* every directory-entry name of the model, in ascending (code unit) order
NameOrder ==
    <<".cargo", "Cargo.toml", "a", "a.masm", "account.masm", "app", "asm", "b.masm",
      "bar", "bar.masm", "blake3", "blake3.masm", "build.rs", "c.masm", "c0", "c1",
      "core", "crates", "crypto", "foo", "foolib", "hashes", "home", "idx", "idx2", "lib",
      "main.masm", "mem.masm", "memory.masm", "miden-core-lib-10",
      "miden-core-lib-9", "miden-foo-1", "miden-foo-lib-1", "miden-stdlib-1",
      "miden-stdlib-sys-1", "mod.masm", "p", "registry", "shared_modules", "src",
      "ws", "zlib">>

Reverse(s) == [i \in 1..Len(s) |-> s[Len(s) + 1 - i]]

\* the names in dir
Entries(disk, dir) == {f[Len(dir) + 1] : f \in {g \in DOMAIN disk : IsPrefix(dir, g)}}

\* the names of S in the file system's listing order
Listed(S, order) ==
    SelectSeq(IF order = "asc" THEN NameOrder ELSE Reverse(NameOrder),
              LAMBDA n : n \in S)

\* fs.readdirSync(dir): the order of the result is the file system's
Readdir(disk, order, dir) == Listed(Entries(disk, dir), order)

----------------------------------------------------------------------------
(* tryModulePaths, searchCargoCache *)

\* subPath.replace(/\.masm$/, '') + '/mod.masm'
ModPathOf(subPath) ==
    IF subPath = <<>> THEN <<"mod.masm">>
    ELSE SubSeq(subPath, 1, Len(subPath) - 1)
            \o <<StripMasm(subPath[Len(subPath)]), "mod.masm">>

FirstExisting(disk, directPath, modPath) ==
    IF Exists(disk, directPath) THEN directPath
    ELSE IF Exists(disk, modPath) THEN modPath
    ELSE Null

tryModulePaths(disk, basePath, subPath) ==
    FirstExisting(disk, Join(basePath, subPath), Join(basePath, ModPathOf(subPath)))

\* process.env.CARGO_HOME || path.join(process.env.HOME || '', '.cargo')
CargoHome == <<"home", ".cargo">>
RegistrySrc == Join(CargoHome, <<"registry", "src">>)

\* e.startsWith(crateName + '-'), on the version directories of the model
CratePrefixes ==
    [e \in {"miden-core-lib-10", "miden-core-lib-9", "miden-foo-1",
            "miden-foo-lib-1", "miden-stdlib-1", "miden-stdlib-sys-1"} |->
        CASE e = "miden-core-lib-10" -> {"miden-core-lib", "miden-core", "miden"}
          [] e = "miden-core-lib-9" -> {"miden-core-lib", "miden-core", "miden"}
          [] e = "miden-foo-1" -> {"miden-foo", "miden"}
          [] e = "miden-foo-lib-1" -> {"miden-foo-lib", "miden-foo", "miden"}
          [] e = "miden-stdlib-1" -> {"miden-stdlib", "miden"}
          [] e = "miden-stdlib-sys-1" -> {"miden-stdlib-sys", "miden-stdlib", "miden"}]
StartsWithCrate(e, crateName) ==
    e \in DOMAIN CratePrefixes /\ crateName \in CratePrefixes[e]

\* entries.sort((a, b) => b.localeCompare(a, undefined, { numeric: true }))
NumericDescending ==
    <<"miden-stdlib-sys-1", "miden-stdlib-1", "miden-foo-lib-1", "miden-foo-1",
      "miden-core-lib-10", "miden-core-lib-9">>

\* a || b on paths
OrElse(a, b) == IF a # Null THEN a ELSE b

RECURSIVE TryVersions(_, _, _, _)
\* for (const version of entries)
TryVersions(disk, indexPath, versions, subPath) ==
    IF versions = <<>> THEN Null
    ELSE OrElse(tryModulePaths(disk, Join(indexPath, <<Head(versions), "asm">>), subPath),
                TryVersions(disk, indexPath, Tail(versions), subPath))

\* readdirSync(indexPath).filter(startsWith).sort(...): of a file it throws (continue)
VersionsOf(disk, indexPath, crateName) ==
    IF IsDirectory(disk, indexPath)
    THEN SelectSeq(NumericDescending,
                   LAMBDA e : e \in Entries(disk, indexPath) /\ StartsWithCrate(e, crateName))
    ELSE <<>>

RECURSIVE SearchIndexDirs(_, _, _, _)
\* for (const indexDir of indexDirs)
SearchIndexDirs(disk, indexDirs, crateName, subPath) ==
    IF indexDirs = <<>> THEN Null
    ELSE OrElse(TryVersions(disk, Join(RegistrySrc, <<Head(indexDirs)>>),
                            VersionsOf(disk, Join(RegistrySrc, <<Head(indexDirs)>>), crateName),
                            subPath),
                SearchIndexDirs(disk, Tail(indexDirs), crateName, subPath))

searchCargoCache(disk, order, crateName, subPath) ==
    IF ~Exists(disk, RegistrySrc) THEN Null
    ELSE IF ~IsDirectory(disk, RegistrySrc) THEN Null
    ELSE SearchIndexDirs(disk, Readdir(disk, order, RegistrySrc), crateName, subPath)

----------------------------------------------------------------------------
(* findProjectRoot, findWorkspaceRoot *)

ProjectRootMaxDepth == 15
WorkspaceRootMaxDepth == 15
AliasMaxDepth == 5

RECURSIVE ProjectRootWalk(_, _, _)
ProjectRootWalk(disk, currentDir, i) ==
    IF i >= ProjectRootMaxDepth THEN Null
    ELSE IF IsDirectory(disk, Join(currentDir, <<"asm">>)) THEN currentDir
    ELSE IF Dirname(currentDir) = currentDir THEN Null
    ELSE ProjectRootWalk(disk, Dirname(currentDir), i + 1)

findProjectRoot(disk, fromFile) == ProjectRootWalk(disk, Dirname(fromFile), 0)

\* content.includes('[workspace]'); reading a directory throws and is skipped
DeclaresWorkspace(disk, cargoToml) ==
    IF IsFile(disk, cargoToml)
    THEN \E i \in DOMAIN disk[cargoToml] :
            \E k \in DOMAIN disk[cargoToml][i] : disk[cargoToml][i][k] = "[workspace]"
    ELSE FALSE

RECURSIVE WorkspaceRootWalk(_, _, _)
WorkspaceRootWalk(disk, currentDir, i) ==
    IF i >= WorkspaceRootMaxDepth THEN Null
    ELSE IF DeclaresWorkspace(disk, Join(currentDir, <<"Cargo.toml">>)) THEN currentDir
    ELSE IF Dirname(currentDir) = currentDir THEN Null
    ELSE WorkspaceRootWalk(disk, Dirname(currentDir), i + 1)

findWorkspaceRoot(disk, fromFile) == WorkspaceRootWalk(disk, Dirname(fromFile), 0)

----------------------------------------------------------------------------
(* Namespace Directory: parseBuildRsNamespaces, findNamespaceAsmDir.        *)
(* A build.rs line is one matched statement:                                *)
(*   <<"LIB_NAMESPACE", X, s1, .., sn>>  const X_LIB_NAMESPACE: &str = "s1::..::sn"; *)
(*   <<"ASM_DIR", X, d>>                 const ASM_X_DIR: &str = "d";        *)
(*   <<"assemble_library_from_dir", s1, .., sn>>                             *)
(*                       assemble_library_from_dir(dir, "s1::..::sn")        *)

\* crateDir: '' of the cached format; path.join('', 'asm', d) is relative
EmptyCrateDir == <<".">>
\* dirKey.includes('NOTE_SCRIPT') || dirKey.includes('ACCOUNT_COMPONENT')
ExcludedDirKeys == {"NOTE_SCRIPTS", "ACCOUNT_COMPONENTS"}

NsInfo(crateDir, asmSubDir) == [crateDir |-> crateDir, asmSubDir |-> asmSubDir]
NoNamespaces == [namespaces |-> EmptyFun, simpleCache |-> EmptyFun]

RECURSIVE CollectDecls(_, _, _, _)
\* while ((match = regex.exec(content)) !== null) found[match[1]] = match[2]
CollectDecls(content, i, kind, found) ==
    IF i > Len(content) THEN found
    ELSE CollectDecls(content, i + 1, kind,
            IF Tok(content[i], 1) = kind /\ Len(content[i]) >= 3
            THEN MapSet(found, content[i][2], SubSeq(content[i], 3, Len(content[i])))
            ELSE found)

\* namespaces.set(namespace, {crateDir, asmSubDir}); simpleCache.set(last, asmDir)
SetNamespace(acc, namespace, crateDir, asmDir) ==
    [namespaces |-> FunSet(acc.namespaces, namespace, NsInfo(crateDir, asmDir)),
     simpleCache |-> IF Len(namespace) >= 2
                     THEN FunSet(acc.simpleCache, namespace[Len(namespace)], asmDir)
                     ELSE acc.simpleCache]

RECURSIVE MatchPairs(_, _, _, _, _)
\* for (const [key, namespace] of Object.entries(foundNamespaces))
MatchPairs(foundNamespaces, i, foundDirs, crateDir, acc) ==
    IF i > Len(foundNamespaces) THEN acc
    ELSE MatchPairs(foundNamespaces, i + 1, foundDirs, crateDir,
            IF MapHas(foundDirs, foundNamespaces[i][1])
            THEN SetNamespace(acc, foundNamespaces[i][2], crateDir,
                              MapGet(foundDirs, foundNamespaces[i][1])[1])
            ELSE acc)

\* the first ASM_*_DIR whose key names no note script or account component
FirstLibraryDir(foundDirs) ==
    Bind({i \in DOMAIN foundDirs : foundDirs[i][1] \notin ExcludedDirKeys}, LAMBDA ok :
        IF ok = {} THEN "" ELSE foundDirs[MinOf(ok)][2][1])

\* foundDir ? foundDir : nsLast; simpleCache.set(nsLast, dir) whatever the length
SetAssembled(acc, namespace, crateDir, foundDir) ==
    Bind(IF foundDir # "" THEN foundDir ELSE namespace[Len(namespace)], LAMBDA dir :
        [namespaces |-> FunSet(acc.namespaces, namespace, NsInfo(crateDir, dir)),
         simpleCache |-> FunSet(acc.simpleCache, namespace[Len(namespace)], dir)])

RECURSIVE AssembleCalls(_, _, _, _, _)
\* while ((match = assembleRegex.exec(content)) !== null)
AssembleCalls(content, i, foundDirs, crateDir, acc) ==
    IF i > Len(content) THEN acc
    ELSE AssembleCalls(content, i + 1, foundDirs, crateDir,
            IF /\ Tok(content[i], 1) = "assemble_library_from_dir"
               /\ Len(content[i]) >= 2
               /\ Tail(content[i]) \notin DOMAIN acc.namespaces
            THEN SetAssembled(acc, Tail(content[i]), crateDir, FirstLibraryDir(foundDirs))
            ELSE acc)

\* the declarations of one build.rs applied to the maps
ScanBuildRs(content, crateDir, foundDirs, acc) ==
    AssembleCalls(content, 1, foundDirs, crateDir,
        MatchPairs(CollectDecls(content, 1, "LIB_NAMESPACE", EmptyMap), 1,
                   foundDirs, crateDir, acc))

\* the body of the loop over crates (a build.rs that cannot be read is skipped)
ScanCrate(disk, cratesDir, crate, acc) ==
    IF ~IsFile(disk, Join(cratesDir, <<crate, "build.rs">>)) THEN acc
    ELSE ScanBuildRs(disk[Join(cratesDir, <<crate, "build.rs">>)],
                     Join(cratesDir, <<crate>>),
                     CollectDecls(disk[Join(cratesDir, <<crate, "build.rs">>)], 1,
                                  "ASM_DIR", EmptyMap),
                     acc)

RECURSIVE ScanCrates(_, _, _, _)
\* for (const crate of crates)
ScanCrates(disk, cratesDir, crates, acc) ==
    IF crates = <<>> THEN acc
    ELSE ScanCrates(disk, cratesDir, Tail(crates),
                    ScanCrate(disk, cratesDir, Head(crates), acc))

\* the cached format converted back: keys are last segments, crateDir is ''
FromSimpleCache(cached) ==
    [ns \in {<<k>> : k \in DOMAIN cached} |-> NsInfo(EmptyCrateDir, cached[ns[1]])]

\* the scan of <workspaceRoot>/crates on a cache miss
ScanWorkspace(disk, order, cratesDir) ==
    IF IsDirectory(disk, cratesDir)
    THEN ScanCrates(disk, cratesDir, Readdir(disk, order, cratesDir), NoNamespaces)
    ELSE NoNamespaces

\* returns [val |-> namespaces, nc |-> namespaceCache afterwards]
parseBuildRsNamespaces(nc, disk, order, workspaceRoot) ==
    IF workspaceRoot \in DOMAIN nc
    THEN [val |-> FromSimpleCache(nc[workspaceRoot]), nc |-> nc]
    ELSE Bind(ScanWorkspace(disk, order, Join(workspaceRoot, <<"crates">>)), LAMBDA found :
            [val |-> found.namespaces,
             nc |-> FunSet(nc, workspaceRoot, found.simpleCache)])

NoNsInfo == NsInfo(Null, "")

\* namespaces.has(namespace), then namespaces.has(`miden::${namespace}`)
LookupNamespace(namespaces, namespace) ==
    IF namespace \in DOMAIN namespaces THEN namespaces[namespace]
    ELSE IF (<<"miden">> \o namespace) \in DOMAIN namespaces
         THEN namespaces[<<"miden">> \o namespace]
    ELSE NoNsInfo

\* returns [val |-> nsInfo | NoNsInfo, nc |-> namespaceCache afterwards]
findNamespaceAsmDir(nc, disk, order, workspaceRoot, namespace) ==
    Bind(parseBuildRsNamespaces(nc, disk, order, workspaceRoot), LAMBDA r :
        [val |-> LookupNamespace(r.val, namespace), nc |-> r.nc])

----------------------------------------------------------------------------
(* Path Resolver: resolveModulePath *)

\* subParts[subParts.length - 1] + '.masm' (undefined + '.masm' when empty)
FileNameOf(subParts) ==
    IF subParts = <<>> THEN Masm("undefined") ELSE Masm(subParts[Len(subParts)])

\* the sub-path without its directories
SubPathFlat(subParts) == <<FileNameOf(subParts)>>

\* subDir ? `${subDir}/${fileName}` : fileName
SubPathOf(subParts) ==
    SubSeq(subParts, 1, Len(subParts) - 1) \o <<FileNameOf(subParts)>>

\* externalNamespaces without an entry
ExternalCrateNone(namespace) == ""

\* externalNamespaces[namespace], "" when there is none
ExternalCrate(namespace) == IF namespace = "core" THEN "miden-core-lib" ELSE ""

\* `miden-${namespace}-lib` and `miden-${namespace}`, on the namespaces of the model
LibCrateOf(namespace) ==
    CASE namespace = "foo" -> "miden-foo-lib"
      [] namespace = "core" -> "miden-core-lib"
      [] OTHER -> "miden-?-lib"
PlainCrateOf(namespace) ==
    CASE namespace = "foo" -> "miden-foo"
      [] namespace = "core" -> "miden-core"
      [] OTHER -> "miden-?"

RECURSIVE SearchSubdirs(_, _, _, _)
\* for (const subdir of subdirs) if (statSync(..).isDirectory()) tryModulePaths
SearchSubdirs(disk, asmDir, subdirs, subPath) ==
    IF subdirs = <<>> THEN Null
    ELSE OrElse(IF IsDirectory(disk, Join(asmDir, <<Head(subdirs)>>))
                THEN tryModulePaths(disk, Join(asmDir, <<Head(subdirs)>>), subPath)
                ELSE Null,
                SearchSubdirs(disk, asmDir, Tail(subdirs), subPath))

\* every sub-directory of asmDir, in listing order (nothing when it is no directory)
SearchAsmDir(disk, order, asmDir, subPath) ==
    IF IsDirectory(disk, asmDir)
    THEN SearchSubdirs(disk, asmDir, Readdir(disk, order, asmDir), subPath)
    ELSE Null

\* the namespace is bound by build.rs: the bound directory, then its siblings
SearchBound(disk, order, nsInfo, subPath) ==
    OrElse(tryModulePaths(disk, Join(nsInfo.crateDir, <<"asm", nsInfo.asmSubDir>>), subPath),
           SearchAsmDir(disk, order, Join(nsInfo.crateDir, <<"asm">>), subPath))

RECURSIVE SearchCrates(_, _, _, _, _, _)
\* for (const crate of crates): asm/<namespace> first, then every asm/<subdir>;
\* readdirSync of an asm that is a file throws out of the loop with result null
SearchCrates(disk, order, cratesDir, crates, namespace, subPath) ==
    IF crates = <<>> THEN Null
    ELSE OrElse(tryModulePaths(disk, Join(cratesDir, <<Head(crates), "asm", namespace>>),
                               subPath),
           IF IsFile(disk, Join(cratesDir, <<Head(crates), "asm">>)) THEN Null
           ELSE OrElse(SearchAsmDir(disk, order, Join(cratesDir, <<Head(crates), "asm">>),
                                    subPath),
                       SearchCrates(disk, order, cratesDir, Tail(crates), namespace,
                                    subPath)))

SearchAllCrates(disk, order, workspaceRoot, namespace, subPath) ==
    IF IsDirectory(disk, Join(workspaceRoot, <<"crates">>))
    THEN SearchCrates(disk, order, Join(workspaceRoot, <<"crates">>),
                      Readdir(disk, order, Join(workspaceRoot, <<"crates">>)),
                      namespace, subPath)
    ELSE Null

(* What a resolution consulted, for the claims about where it may look *)
PWorkspaceRoot == <<"workspaceRoot", "">>
PNamespaces == <<"namespaces", "">>
PBound == <<"bound", "">>
PCrates == <<"crates", "">>
PProjectRoot == <<"projectRoot", "">>
PRelative == <<"relative", "">>
PModuleCache == <<"moduleCache", "">>
PRegistry(crateName) == <<"registry", crateName>>

Found(val, nc, pr) == [val |-> val, nc |-> nc, pr |-> pr]
When(cond, probe) == IF cond THEN {probe} ELSE {}

\* if (nsInfo) { bound directory } if (!result) { all crates }
WorkspaceSearchWith(ns, disk, order, workspaceRoot, namespace, subPath) ==
    Bind(IF ns.val # NoNsInfo THEN SearchBound(disk, order, ns.val, subPath) ELSE Null,
         LAMBDA r1 :
        Found(OrElse(r1, SearchAllCrates(disk, order, workspaceRoot, namespace, subPath)),
              ns.nc,
              {PNamespaces} \cup When(ns.val # NoNsInfo, PBound) \cup When(r1 = Null, PCrates)))

\* if (workspaceRoot) { ... }
WorkspaceSearch(nc, disk, order, workspaceRoot, namespace, subPath) ==
    IF workspaceRoot = Null THEN Found(Null, nc, {})
    ELSE WorkspaceSearchWith(
            findNamespaceAsmDir(nc, disk, order, workspaceRoot, <<"miden", namespace>>),
            disk, order, workspaceRoot, namespace, subPath)

\* if (projectRoot) { localPath = <projectRoot>/asm/<namespace>/<subPath> }
ProjectRootSearch(disk, projectRoot, namespace, subPath) ==
    IF projectRoot # Null
          /\ Exists(disk, Join(projectRoot, <<"asm", namespace>> \o subPath))
    THEN Join(projectRoot, <<"asm", namespace>> \o subPath)
    ELSE Null

\* searchCargoCache(`miden-${namespace}-lib`) || searchCargoCache(`miden-${namespace}`)
RegistryFallback(w, disk, order, namespace, subPath) ==
    Bind(searchCargoCache(disk, order, LibCrateOf(namespace), subPath), LAMBDA lib :
        Found(OrElse(lib, searchCargoCache(disk, order, PlainCrateOf(namespace), subPath)),
              w.nc,
              w.pr \cup {PRegistry(LibCrateOf(namespace))}
                   \cup When(lib = Null, PRegistry(PlainCrateOf(namespace)))))

\* Rule 1 with the registry asked before any local search
ResolveMidenLocalRegistryFirst(nc, disk, order, currentFile, namespace, subPath) ==
    Bind(RegistryFallback(Found(Null, nc, {}), disk, order, namespace, subPath), LAMBDA g :
        IF g.val # Null THEN g
        ELSE Bind(WorkspaceSearch(nc, disk, order, findWorkspaceRoot(disk, currentFile),
                                  namespace, subPath), LAMBDA w :
            IF w.val # Null THEN Found(w.val, w.nc, g.pr \cup w.pr)
            ELSE Found(ProjectRootSearch(disk, findProjectRoot(disk, currentFile),
                                         namespace, subPath),
                       w.nc, g.pr \cup w.pr \cup {PProjectRoot})))

\* Rule 1 given up as a whole when the file lies in no workspace
ResolveMidenLocalNeedsWorkspace(nc, disk, order, currentFile, namespace, subPath) ==
    IF findWorkspaceRoot(disk, currentFile) = Null THEN Found(Null, nc, {})
    ELSE Bind(WorkspaceSearch(nc, disk, order, findWorkspaceRoot(disk, currentFile),
                              namespace, subPath), LAMBDA w :
         Bind(IF w.val # Null THEN w
              ELSE Found(ProjectRootSearch(disk, findProjectRoot(disk, currentFile),
                                           namespace, subPath),
                         w.nc, w.pr \cup {PProjectRoot}), LAMBDA p :
             IF p.val # Null THEN Found(p.val, p.nc, p.pr \cup {PWorkspaceRoot})
             ELSE RegistryFallback(Found(Null, p.nc, p.pr \cup {PWorkspaceRoot}),
                                   disk, order, namespace, subPath)))

\* Rule 1, namespace not external. Returns [val, nc, pr].
ResolveMidenLocal(nc, disk, order, currentFile, namespace, subPath) ==
    Bind(WorkspaceSearch(nc, disk, order, findWorkspaceRoot(disk, currentFile),
                         namespace, subPath), LAMBDA w :
    Bind(IF w.val # Null THEN w
         ELSE Found(ProjectRootSearch(disk, findProjectRoot(disk, currentFile),
                                      namespace, subPath),
                    w.nc, w.pr \cup {PProjectRoot}), LAMBDA p :
        IF p.val # Null THEN Found(p.val, p.nc, p.pr \cup {PWorkspaceRoot})
        ELSE RegistryFallback(Found(Null, p.nc, p.pr \cup {PWorkspaceRoot}),
                              disk, order, namespace, subPath)))

RECURSIVE AliasWalkUnbounded(_, _, _, _)
\* Rule 4 without the depth limit: the walk ends at the root only
AliasWalkUnbounded(disk, searchDir, fileName, i) ==
    IF Exists(disk, Join(searchDir, <<"lib", fileName>>))
    THEN Join(searchDir, <<"lib", fileName>>)
    ELSE IF Exists(disk, Join(searchDir, <<"..", "shared_modules", fileName>>))
         THEN Join(searchDir, <<"..", "shared_modules", fileName>>)
    ELSE IF Dirname(searchDir) = searchDir THEN Null
    ELSE AliasWalkUnbounded(disk, Dirname(searchDir), fileName, i + 1)

RECURSIVE AliasWalk(_, _, _, _)
\* Rule 4: lib/<file>, then ../shared_modules/<file>, walking up
AliasWalk(disk, searchDir, fileName, i) ==
    IF i >= AliasMaxDepth THEN Null
    ELSE IF Exists(disk, Join(searchDir, <<"lib", fileName>>))
         THEN Join(searchDir, <<"lib", fileName>>)
    ELSE IF Exists(disk, Join(searchDir, <<"..", "shared_modules", fileName>>))
         THEN Join(searchDir, <<"..", "shared_modules", fileName>>)
    ELSE IF Dirname(searchDir) = searchDir THEN Null
    ELSE AliasWalk(disk, Dirname(searchDir), fileName, i + 1)

RECURSIVE FirstExistingOf(_, _)
\* for (const searchPath of searchPaths) if (fs.existsSync(searchPath)) ...
FirstExistingOf(disk, searchPaths) ==
    IF searchPaths = <<>> THEN Null
    ELSE IF Exists(disk, Head(searchPaths)) THEN Head(searchPaths)
    ELSE FirstExistingOf(disk, Tail(searchPaths))

\* Rule 5 with the parent directory searched before the directory of the file
ResolveBareParentFirst(disk, currentDir, fileName) ==
    FirstExistingOf(disk, <<Join(currentDir, <<"..", fileName>>),
                            Join(currentDir, <<"..", "lib", fileName>>),
                            Join(currentDir, <<fileName>>),
                            Join(currentDir, <<"lib", fileName>>)>>)

\* Rule 5: the first existing of the four relative candidates
ResolveBare(disk, currentDir, fileName) ==
    FirstExistingOf(disk, <<Join(currentDir, <<fileName>>),
                            Join(currentDir, <<"lib", fileName>>),
                            Join(currentDir, <<"..", fileName>>),
                            Join(currentDir, <<"..", "lib", fileName>>)>>)

\* Rule 1
ResolveMiden(nc, disk, order, currentFile, namespace, subPath) ==
    IF ExternalCrate(namespace) # ""
    THEN Found(searchCargoCache(disk, order, ExternalCrate(namespace), subPath), nc,
               {PRegistry(ExternalCrate(namespace))})
    ELSE ResolveMidenLocal(nc, disk, order, currentFile, namespace, subPath)

\* the computation on a cache miss. Returns [val, nc, pr].
ResolveUncached(nc, disk, order, currentFile, moduleName, parts) ==
    IF parts[1] = "miden" /\ Len(parts) >= 3
    THEN ResolveMiden(nc, disk, order, currentFile, parts[2],
                      SubPathOf(SubSeq(parts, 3, Len(parts))))
    ELSE IF parts[1] = "std" /\ Len(parts) >= 2
    THEN Found(searchCargoCache(disk, order, "miden-stdlib",
                                SubPathOf(SubSeq(parts, 2, Len(parts)))),
               nc, {PRegistry("miden-stdlib")})
    ELSE IF parts[1] \in DollarNames
    THEN Found(AliasWalk(disk, Dirname(currentFile),
                         FileNameOf(SubSeq(parts, 2, Len(parts))), 0),
               nc, {PRelative})
    ELSE IF Len(parts) = 1
    THEN Found(ResolveBare(disk, Dirname(currentFile), Masm(moduleName)), nc, {PRelative})
    ELSE Found(Null, nc, {})

\* moduleCache.set(cacheKey, result); return result
Remember(mc, cacheKey, r) ==
    [val |-> r.val, mc |-> FunSet(mc, cacheKey, r.val), nc |-> r.nc, pr |-> r.pr]

\* resolveModulePath without the cache lookup: every call searches again
resolveModulePathAlwaysSearches(mc, nc, disk, order, currentFile, moduleName, importPath) ==
    Remember(mc, <<currentFile, importPath>>,
             ResolveUncached(nc, disk, order, currentFile, moduleName, importPath))

\* returns [val |-> path | Null, mc, nc |-> the caches afterwards, pr |-> probes]
resolveModulePath(mc, nc, disk, order, currentFile, moduleName, importPath) ==
    IF <<currentFile, importPath>> \in DOMAIN mc
    THEN [val |-> mc[<<currentFile, importPath>>], mc |-> mc, nc |-> nc,
          pr |-> {PModuleCache}]
    ELSE Remember(mc, <<currentFile, importPath>>,
                  ResolveUncached(nc, disk, order, currentFile, moduleName, importPath))

----------------------------------------------------------------------------
(* The caches threaded through one handler: st = [fc, mc, nc]; every         *)
(* operator below that reads or writes a cache returns [val, st].            *)

Val(val, st) == [val |-> val, st |-> st]

\* fileCache.set(filePath, result); return result
Store(st, filePath, result) ==
    Val(result, [st EXCEPT !.fc = FunSet(@, filePath, result)])

\* parseFile without the cache lookup: every call reads the disk again
parseFileAlwaysReads(st, disk, filePath) ==
    Store(st, filePath, ParseContent(disk, filePath))

parseFile(st, disk, filePath) ==
    IF filePath \in DOMAIN st.fc
    THEN Val(st.fc[filePath], st)
    ELSE Store(st, filePath, ParseContent(disk, filePath))

\* resolveModulePath on the threaded caches. Returns [val, st, pr].
Resolve(st, disk, order, currentFile, moduleName, importPath) ==
    Bind(resolveModulePath(st.mc, st.nc, disk, order, currentFile, moduleName, importPath),
         LAMBDA r :
        [val |-> r.val, st |-> [st EXCEPT !.mc = r.mc, !.nc = r.nc], pr |-> r.pr])

\* imports.get(moduleName) || moduleName
ImportPathOf(imports, moduleName) ==
    IF MapHas(imports, moduleName) THEN MapGet(imports, moduleName) ELSE <<moduleName>>

----------------------------------------------------------------------------
(* Symbol Locator *)

\* tok.includes(name) for tok # name, on the tokens and names of the model
SubstringPairs ==
    {<<"export", "x">>, <<"exec", "x">>, <<"dynexec", "x">>, <<"dynexec", "y">>,
     <<"memory", "y">>, <<"syscall", "y">>, <<"dyncall", "y">>, <<"crypto", "y">>}
Contains(tok, name) == tok = name \/ <<tok, name>> \in SubstringPairs

\* line.indexOf(name): the (zero-based) index of the first token holding name
IndexOf(line, name) ==
    Bind({i \in DOMAIN line : Contains(line[i], name)}, LAMBDA S :
        IF S = {} THEN -1 ELSE MinOf(S) - 1)

Loc(file, line, col) == [file |-> file, line |-> line, col |-> col]

\* the first line of lines satisfying Test, or 0
FirstLine(lines, Test(_)) ==
    Bind({i \in DOMAIN lines : Test(lines[i])}, LAMBDA S :
        IF S = {} THEN 0 ELSE MinOf(S))

\* new vscode.Location(Uri.file(file), new vscode.Position(i, lines[i].indexOf(name)))
\* for the line found by a scan (i = 0: no line matched)
LocOnLine(file, lines, i, name) ==
    IF i = 0 THEN NoLoc ELSE Loc(file, i - 1, IndexOf(lines[i], name))

\* new RegExp(`^\\s*(?:pub\\s+)?const\\s+${constantName}\\s*=`)
ConstLine(line, constantName) ==
    Bind(AfterPub(line), LAMBDA c :
    Bind(SkipWs(line, c + 1), LAMBDA n :
    Bind(SkipWs(line, n + 1), LAMBDA q :
        /\ Tok(line, c) = "const" /\ Tok(line, c + 1) = " "
        /\ Tok(line, n) = constantName /\ Tok(line, q) = "=")))

findConstantInFile(disk, filePath, constantName) ==
    IF ~IsFile(disk, filePath) THEN NoLoc
    ELSE LocOnLine(filePath, disk[filePath],
                   FirstLine(disk[filePath], LAMBDA l : ConstLine(l, constantName)),
                   constantName)

\* new RegExp(`^\\s*(?:pub\\s+)?proc\\s+${procedureName}\\b`)
ProcLine(line, procedureName) == ProcKeywordName(line) = procedureName
\* ... |^\\s*export\\.${procedureName}\\b
ProcOrExportLine(line, procedureName) ==
    ProcKeywordName(line) = procedureName \/ ExportName(line) = procedureName

\* the direct scans of findProcedureSource: proc lines only
ScanProc(disk, filePath, procedureName) ==
    IF ~IsFile(disk, filePath) THEN NoLoc
    ELSE LocOnLine(filePath, disk[filePath],
                   FirstLine(disk[filePath], LAMBDA l : ProcLine(l, procedureName)),
                   procedureName)

\* new Position(reexport.line, lines[reexport.line].indexOf(name)): lines[l] of a
\* summary older than the file may be undefined, or no longer hold the name and
\* Position rejects the negative column; either way the catch returns null
ReexportLoc(filePath, lines, l, procedureName) ==
    IF l + 1 \in DOMAIN lines
    THEN IF IndexOf(lines[l + 1], procedureName) >= 0
         THEN Loc(filePath, l, IndexOf(lines[l + 1], procedureName))
         ELSE NoLoc
    ELSE NoLoc

\* const { reexports } = parseFile(filePath); reexports.get(procedureName)
ReexportFallback(pf, disk, filePath, procedureName) ==
    Val(IF procedureName \in DOMAIN pf.val.reexports
        THEN ReexportLoc(filePath, disk[filePath],
                         pf.val.reexports[procedureName].line, procedureName)
        ELSE NoLoc,
        pf.st)

\* the for loop of findProcedureInFile found line i (0: none)
ProcedureInFileAt(st, disk, filePath, procedureName, i) ==
    IF i # 0 THEN Val(LocOnLine(filePath, disk[filePath], i, procedureName), st)
    ELSE ReexportFallback(parseFile(st, disk, filePath), disk, filePath, procedureName)

\* returns [val |-> location | NoLoc, st]
findProcedureInFile(st, disk, filePath, procedureName) ==
    IF ~IsFile(disk, filePath) THEN Val(NoLoc, st)
    ELSE ProcedureInFileAt(st, disk, filePath, procedureName,
            FirstLine(disk[filePath], LAMBDA l : ProcOrExportLine(l, procedureName)))

\* more nested calls than there are (file, name) pairs: the recursion is cut
\* and reported as diverged
MaxCalls == 8
Diverged == [file |-> <<"<diverged>">>, line |-> -1, col |-> -1]

\* a || b on locations
OrLoc(a, b) == IF a # NoLoc THEN a ELSE b

RECURSIVE findProcedureSourceNoVisited(_, _, _, _, _, _, _)
\* findProcedureSource without the visited set
findProcedureSourceNoVisited(st, disk, order, filePath, procedureName, visited, depth) ==
    IF depth > MaxCalls THEN Val(Diverged, st)
    ELSE Bind(parseFile(st, disk, filePath), LAMBDA pf :
        IF procedureName \notin DOMAIN pf.val.reexports
        THEN Val(ScanProc(disk, filePath, procedureName), pf.st)
        ELSE Bind(Resolve(pf.st, disk, order, filePath,
                          pf.val.reexports[procedureName].module,
                          ImportPathOf(pf.val.imports,
                                       pf.val.reexports[procedureName].module)),
                  LAMBDA tf :
            IF tf.val = Null THEN Val(ScanProc(disk, filePath, procedureName), tf.st)
            ELSE Bind(findProcedureSourceNoVisited(tf.st, disk, order, tf.val,
                          pf.val.reexports[procedureName].originalName,
                          visited, depth + 1),
                      LAMBDA rec :
                IF rec.val # NoLoc THEN rec
                ELSE Val(OrLoc(ScanProc(disk, tf.val,
                                        pf.val.reexports[procedureName].originalName),
                               ScanProc(disk, filePath, procedureName)),
                         rec.st))))

RECURSIVE findProcedureSourceRec(_, _, _, _, _, _, _)
\* returns [val |-> location | NoLoc | Diverged, st]
findProcedureSourceRec(st, disk, order, filePath, procedureName, visited, depth) ==
    IF depth > MaxCalls THEN Val(Diverged, st)
    ELSE IF <<filePath, procedureName>> \in visited THEN Val(NoLoc, st)
    ELSE Bind(parseFile(st, disk, filePath), LAMBDA pf :
        IF procedureName \notin DOMAIN pf.val.reexports
        THEN Val(ScanProc(disk, filePath, procedureName), pf.st)
        ELSE Bind(Resolve(pf.st, disk, order, filePath,
                          pf.val.reexports[procedureName].module,
                          ImportPathOf(pf.val.imports,
                                       pf.val.reexports[procedureName].module)),
                  LAMBDA tf :
            IF tf.val = Null THEN Val(ScanProc(disk, filePath, procedureName), tf.st)
            ELSE Bind(findProcedureSourceRec(tf.st, disk, order, tf.val,
                          pf.val.reexports[procedureName].originalName,
                          visited \cup {<<filePath, procedureName>>}, depth + 1),
                      LAMBDA rec :
                IF rec.val # NoLoc THEN rec
                ELSE Val(OrLoc(ScanProc(disk, tf.val,
                                        pf.val.reexports[procedureName].originalName),
                               ScanProc(disk, filePath, procedureName)),
                         rec.st))))

findProcedureSource(st, disk, order, filePath, procedureName) ==
    findProcedureSourceRec(st, disk, order, filePath, procedureName, {}, 0)

----------------------------------------------------------------------------
(* getProcedureDocumentation *)

NoHover == [kind |-> "none", lines |-> <<>>, name |-> "", file |-> ""]

Basename(p) == IF p = <<>> THEN "" ELSE p[Len(p)]

RECURSIVE TrimEnd(_)
TrimEnd(s) == IF s # <<>> /\ s[Len(s)] = " " THEN TrimEnd(SubSeq(s, 1, Len(s) - 1)) ELSE s
\* s.trim()
Trim(s) == TrimEnd(SubSeq(s, SkipWs(s, 1), Len(s)))

\* one step of the while loop on the trimmed line: "doc", "skip" or "break"
DocStep(commentLine) ==
    IF Tok(commentLine, 1) = "#!" THEN "doc"
    ELSE IF commentLine = <<>> \/ Tok(commentLine, 1) = "#" THEN "skip"
    ELSE "break"

RECURSIVE DocWalk(_, _, _)
\* while (j >= 0): '#!' lines are collected, blank and '#' lines skipped
DocWalk(lines, j, docLines) ==
    IF j < 1 THEN docLines
    ELSE IF DocStep(Trim(lines[j])) = "doc"
         THEN DocWalk(lines, j - 1, <<Trim(Tail(Trim(lines[j])))>> \o docLines)
    ELSE IF DocStep(Trim(lines[j])) = "skip"
         THEN DocWalk(lines, j - 1, docLines)
    ELSE docLines

\* '```\n' + docLines.join('\n') + '\n```', or `**${name}** in \`${basename}\``
DocOf(docLines, procedureName, filePath) ==
    IF docLines # <<>>
    THEN [kind |-> "doc", lines |-> docLines, name |-> "", file |-> ""]
    ELSE [kind |-> "fallback", lines |-> <<>>, name |-> procedureName,
          file |-> Basename(filePath)]

\* the for loop found the proc line i (0: none)
DocumentationAt(lines, i, procedureName, filePath) ==
    IF i = 0 THEN NoHover
    ELSE DocOf(DocWalk(lines, i - 1, <<>>), procedureName, filePath)

getProcedureDocumentation(disk, filePath, procedureName) ==
    IF ~IsFile(disk, filePath) THEN NoHover
    ELSE DocumentationAt(disk[filePath],
                         FirstLine(disk[filePath], LAMBDA l : ProcLine(l, procedureName)),
                         procedureName, filePath)

----------------------------------------------------------------------------
(* Query Front End.  The cursor line is the editor's text of the line (a    *)
(* token sequence) and pos the index of the token under the cursor.         *)

\* tokens ending in "exec" or "call" (the patterns are not anchored on the left)
EndsWithCall == {"call", "syscall", "dyncall"}
EndsWithExecOrCall == {"exec", "dynexec"} \cup EndsWithCall

\* the word of "$name" without the dollar, on the names of the model
Undollar(t) == IF t = "$kernel" THEN "kernel" ELSE t

\* document.getWordRangeAtPosition(position, /[a-zA-Z_][a-zA-Z0-9_]*/): "" is no word
WordAt(line, pos) ==
    IF IsIdent(Tok(line, pos)) THEN Tok(line, pos)
    ELSE IF Tok(line, pos) \in DollarNames THEN Undollar(Tok(line, pos))
    ELSE ""

\* line.substring(0, wordRange.end.character)
LinePrefix(line, pos) == SubSeq(line, 1, pos)

\* beforeWord.includes('#'), with beforeWord = line.substring(0, wordRange.start)
InComment(line, pos) == \E i \in 1..(pos - 1) : Tok(line, i) \in {"#", "#!"}
\* InString counting every quote of the line instead of those before the word
InStringWholeLine(line, pos) ==
    Cardinality({i \in DOMAIN line : Tok(line, i) = "\""}) % 2 = 1
\* (beforeWord.match(/"/g) || []).length % 2 === 1
InString(line, pos) == Cardinality({i \in 1..(pos - 1) : Tok(line, i) = "\""}) % 2 = 1

\* /(?:exec|call)\.(ident)::(ident)/ starting at token i
QualifiedAt(line, i) ==
    /\ Tok(line, i) \in EndsWithExecOrCall /\ Tok(line, i + 1) = "."
    /\ IsIdent(Tok(line, i + 2)) /\ Tok(line, i + 3) = "::" /\ IsIdent(Tok(line, i + 4))

ExecMatched(line, i) ==
    [ok |-> TRUE, moduleName |-> line[i + 2], procedureName |-> line[i + 4]]

\* linePrefix.match(/(?:exec|call)\.(ident)::(ident)$/)
ExecMatchEnd(linePrefix) ==
    IF Len(linePrefix) >= 5 /\ QualifiedAt(linePrefix, Len(linePrefix) - 4)
    THEN ExecMatched(linePrefix, Len(linePrefix) - 4)
    ELSE NoMatch

\* line.match(/(?:exec|call)\.(ident)::(ident)/): the leftmost match
ExecMatchAny(line) ==
    Bind({i \in DOMAIN line : QualifiedAt(line, i)}, LAMBDA S :
        IF S = {} THEN NoMatch ELSE ExecMatched(line, MinOf(S)))

\* linePrefix.match(/call\.(ident)$/) && !linePrefix.includes('::')
CallLocalMatch(linePrefix) ==
    /\ Len(linePrefix) >= 3
    /\ Tok(linePrefix, Len(linePrefix) - 2) \in EndsWithCall
    /\ Tok(linePrefix, Len(linePrefix) - 1) = "."
    /\ IsIdent(Tok(linePrefix, Len(linePrefix)))
    /\ \A i \in DOMAIN linePrefix : linePrefix[i] # "::"

\* if (location) return location; otherwise go on with the caches as they are
Then(r, F(_)) == IF r.val # NoLoc THEN r ELSE F(r.st)

\* new vscode.Location(vscode.Uri.file(targetFile), new vscode.Position(0, 0))
FileStart(targetFile) == Loc(targetFile, 0, 0)

\* if (targetFile) return the start of the file
ToFileStart(tf) == Val(IF tf.val # Null THEN FileStart(tf.val) ELSE NoLoc, tf.st)

\* if (targetFile) { location = findProcedureInFile(targetFile, name) ... }
InTarget(tf, disk, name) ==
    IF tf.val # Null THEN findProcedureInFile(tf.st, disk, tf.val, name)
    ELSE Val(NoLoc, tf.st)

RECURSIVE SearchImports(_, _, _, _, _, _, _)
\* for (const [moduleName, importPath] of imports): the first location found
SearchImports(st, disk, order, doc, imports, i, name) ==
    IF i > Len(imports) THEN Val(NoLoc, st)
    ELSE Then(InTarget(Resolve(st, disk, order, doc, imports[i][1], imports[i][2]),
                       disk, name),
              LAMBDA s : SearchImports(s, disk, order, doc, imports, i + 1, name))

\* if (alias && word === alias): navigate to the module
UseAlias(st, disk, order, doc, um, word) ==
    IF um.alias # NoAlias /\ word = um.alias
    THEN ToFileStart(Resolve(st, disk, order, doc, um.fullPath[Len(um.fullPath)],
                             um.fullPath))
    ELSE Val(NoLoc, st)

\* if (targetFile) { location = findConstantInFile(targetFile, word) ... }
ConstantInTarget(tf, disk, word) ==
    Val(IF tf.val # Null THEN findConstantInFile(disk, tf.val, word) ELSE NoLoc, tf.st)

\* the word is an upper-case last segment: the constant in the module before it
UseConstant(st, disk, order, doc, pathParts, word) ==
    IF IsUpperSnake(word) /\ word = pathParts[Len(pathParts)]
    THEN ConstantInTarget(
            Resolve(st, disk, order, doc,
                    IF Len(pathParts) >= 2 THEN pathParts[Len(pathParts) - 1]
                    ELSE pathParts[1],
                    IF Len(pathParts) >= 2 THEN SubSeq(pathParts, 1, Len(pathParts) - 1)
                    ELSE <<"">>),
            disk, word)
    ELSE Val(NoLoc, st)

\* if (pathParts.includes(word)) { constant, then module file }
UsePath(st, disk, order, doc, pathParts, word) ==
    IF \E k \in DOMAIN pathParts : pathParts[k] = word
    THEN Then(UseConstant(st, disk, order, doc, pathParts, word), LAMBDA s :
            ToFileStart(Resolve(s, disk, order, doc, pathParts[Len(pathParts)], pathParts)))
    ELSE Val(NoLoc, st)

\* Pattern 1: the use statement. NoLoc is "no return yet".
UsePattern(st, disk, order, doc, line, word) ==
    Bind(UseMatch(line), LAMBDA um :
        IF ~um.ok THEN Val(NoLoc, st)
        ELSE Then(UseAlias(st, disk, order, doc, um, word), LAMBDA s :
                UsePath(s, disk, order, doc, um.fullPath, word)))

\* the qualified reference answered by the source lookup alone
QualifiedTargetSourceOnly(tf, disk, order, em, word) ==
    IF tf.val = Null THEN Val(NoLoc, tf.st)
    ELSE IF word = em.moduleName THEN Val(FileStart(tf.val), tf.st)
    ELSE IF word = em.procedureName
    THEN findProcedureSource(tf.st, disk, order, tf.val, em.procedureName)
    ELSE Val(NoLoc, tf.st)

\* if (targetFile) { module name: file start; procedure name: source, then file }
QualifiedTarget(tf, disk, order, em, word) ==
    IF tf.val = Null THEN Val(NoLoc, tf.st)
    ELSE IF word = em.moduleName THEN Val(FileStart(tf.val), tf.st)
    ELSE IF word = em.procedureName
    THEN Then(findProcedureSource(tf.st, disk, order, tf.val, em.procedureName),
              LAMBDA s : findProcedureInFile(s, disk, tf.val, em.procedureName))
    ELSE Val(NoLoc, tf.st)

\* Pattern 2: exec.module::procedure or call.module::procedure
QualifiedPattern(st, disk, order, doc, imports, linePrefix, word) ==
    Bind(ExecMatchEnd(linePrefix), LAMBDA em :
        IF ~em.ok THEN Val(NoLoc, st)
        ELSE QualifiedTarget(Resolve(st, disk, order, doc, em.moduleName,
                                     ImportPathOf(imports, em.moduleName)),
                             disk, order, em, word))

\* Pattern 2b with the imported modules searched before the current file
CallLocalPatternImportsFirst(st, disk, order, doc, imports, linePrefix) ==
    IF ~CallLocalMatch(linePrefix) THEN Val(NoLoc, st)
    ELSE Then(SearchImports(st, disk, order, doc, imports, 1,
                            linePrefix[Len(linePrefix)]),
              LAMBDA s : findProcedureInFile(s, disk, doc, linePrefix[Len(linePrefix)]))

\* Pattern 2b: call.local_procedure
CallLocalPattern(st, disk, order, doc, imports, linePrefix) ==
    IF ~CallLocalMatch(linePrefix) THEN Val(NoLoc, st)
    ELSE Then(findProcedureInFile(st, disk, doc, linePrefix[Len(linePrefix)]),
              LAMBDA s : SearchImports(s, disk, order, doc, imports, 1,
                                       linePrefix[Len(linePrefix)]))

\* the patterns in order, after the guards
DefinitionPatterns(pf, disk, order, doc, line, pos, word) ==
    Then(UsePattern(pf.st, disk, order, doc, line, word), LAMBDA s1 :
    Then(QualifiedPattern(s1, disk, order, doc, pf.val.imports, LinePrefix(line, pos), word),
         LAMBDA s2 :
    Then(CallLocalPattern(s2, disk, order, doc, pf.val.imports, LinePrefix(line, pos)),
         LAMBDA s3 :
    Then(findProcedureInFile(s3, disk, doc, word), LAMBDA s4 :
        SearchImports(s4, disk, order, doc, pf.val.imports, 1, word)))))

\* returns [val |-> location | NoLoc, st]
provideDefinition(st, disk, order, doc, line, pos) ==
    IF WordAt(line, pos) = "" THEN Val(NoLoc, st)
    ELSE IF InComment(line, pos) THEN Val(NoLoc, st)
    ELSE IF InString(line, pos) THEN Val(NoLoc, st)
    ELSE DefinitionPatterns(parseFile(st, disk, doc), disk, order, doc, line, pos,
                            WordAt(line, pos))

\* if (targetFile) { doc = getProcedureDocumentation(targetFile, word) ... }
HoverTarget(tf, disk, word) ==
    Val(IF tf.val # Null THEN getProcedureDocumentation(disk, tf.val, word) ELSE NoHover,
        tf.st)

\* if (execMatch && word === execMatch[2]) { ... }
HoverQualified(pf, disk, order, doc, em, word) ==
    IF ~em.ok THEN Val(NoHover, pf.st)
    ELSE IF word # em.procedureName THEN Val(NoHover, pf.st)
    ELSE HoverTarget(Resolve(pf.st, disk, order, doc, em.moduleName,
                             ImportPathOf(pf.val.imports, em.moduleName)),
                     disk, word)

\* returns [val |-> hover | NoHover, st]
provideHover(st, disk, order, doc, line, pos) ==
    IF WordAt(line, pos) = "" THEN Val(NoHover, st)
    ELSE IF InComment(line, pos) THEN Val(NoHover, st)
    ELSE IF InString(line, pos) THEN Val(NoHover, st)
    ELSE HoverQualified(parseFile(st, disk, doc), disk, order, doc, ExecMatchAny(line),
                        WordAt(line, pos))

----------------------------------------------------------------------------
(* clearCache, deactivate *)

\* clearCache dropping every summary instead of one
clearCacheDropsAll(st, filePath) ==
    [st EXCEPT !.fc = EmptyFun, !.mc = EmptyFun]

clearCache(st, filePath) ==
    [st EXCEPT !.fc = FunDel(@, filePath), !.mc = EmptyFun]

\* deactivate emptying the namespace cache as well
deactivateDropsNamespaces(st) == [st EXCEPT !.fc = EmptyFun, !.mc = EmptyFun, !.nc = EmptyFun]

deactivate(st) == [st EXCEPT !.fc = EmptyFun, !.mc = EmptyFun]

----------------------------------------------------------------------------
(* State machine: one action per operation of the extension, and the edits  *)
(* of the disk made behind its back.                                        *)

St == [fc |-> fileCache, mc |-> moduleCache, nc |-> namespaceCache]
SetCaches(st) ==
    /\ fileCache' = st.fc
    /\ moduleCache' = st.mc
    /\ namespaceCache' = st.nc

Op(name, file, arg, imp, line, pos) ==
    [name |-> name, file |-> file, arg |-> arg, imp |-> imp, line |-> line, pos |-> pos]

RetNone ==
    [path |-> Null, loc |-> NoLoc, hover |-> NoHover, summary |-> EmptySummary,
     ns |-> EmptyFun, deleted |-> FALSE, cleared |-> 0]

HistNone == [summary |-> EmptyFun, resolved |-> EmptyFun, ns |-> EmptyFun]

\* h with the entries a cache gained: the value stored is the value returned
FirstOf(h, cache) ==
    [k \in (DOMAIN h) \cup (DOMAIN cache) |-> IF k \in DOMAIN h THEN h[k] ELSE cache[k]]

\* h with the roots scanned by this step: the first call returns the scan
FirstScans(h, nc) ==
    [root \in (DOMAIN h) \cup (DOMAIN nc) |->
        IF root \in DOMAIN h THEN h[root]
        ELSE ScanWorkspace(fs, readdirOrder, Join(root, <<"crates">>)).namespaces]

\* the first results since the last invalidation, after a step that left st
Recorded(h, st) ==
    [summary |-> FirstOf(h.summary, st.fc), resolved |-> FirstOf(h.resolved, st.mc),
     ns |-> FirstScans(h.ns, st.nc)]

Orders == {"asc", "desc"}

InitWith(disks, orders) ==
    /\ fs \in disks
    /\ readdirOrder \in orders
    /\ fileCache = EmptyFun
    /\ moduleCache = EmptyFun
    /\ namespaceCache = EmptyFun
    /\ op = Op("init", <<>>, "", <<>>, <<>>, 0)
    /\ ret = RetNone
    /\ probes = {}
    /\ hist = HistNone

\* parseFile(filePath)
IndexOp(filePath) ==
    \E r \in {parseFile(St, fs, filePath)} :
        /\ SetCaches(r.st)
        /\ op' = Op("parseFile", filePath, "", <<>>, <<>>, 0)
        /\ ret' = [RetNone EXCEPT !.summary = r.val]
        /\ hist' = Recorded(hist, r.st)
        /\ probes' = {}
        /\ UNCHANGED <<fs, readdirOrder>>

\* resolveModulePath(currentFile, moduleName, importPath)
ResolveOp(currentFile, moduleName, importPath) ==
    \E r \in {Resolve(St, fs, readdirOrder, currentFile, moduleName, importPath)} :
        /\ SetCaches(r.st)
        /\ op' = Op("resolve", currentFile, moduleName, importPath, <<>>, 0)
        /\ ret' = [RetNone EXCEPT !.path = r.val]
        /\ hist' = Recorded(hist, r.st)
        /\ probes' = r.pr
        /\ UNCHANGED <<fs, readdirOrder>>

\* parseBuildRsNamespaces(workspaceRoot)
NamespacesOp(workspaceRoot) ==
    \E r \in {parseBuildRsNamespaces(namespaceCache, fs, readdirOrder, workspaceRoot)} :
        /\ namespaceCache' = r.nc
        /\ op' = Op("namespaces", workspaceRoot, "", <<>>, <<>>, 0)
        /\ ret' = [RetNone EXCEPT !.ns = r.val]
        /\ hist' = [hist EXCEPT !.ns = FirstScans(@, r.nc)]
        /\ probes' = {}
        /\ UNCHANGED <<fs, readdirOrder, fileCache, moduleCache>>

\* findProcedureSource(filePath, procedureName)
FindSourceOp(filePath, procedureName) ==
    \E r \in {findProcedureSource(St, fs, readdirOrder, filePath, procedureName)} :
        /\ SetCaches(r.st)
        /\ op' = Op("findProcedureSource", filePath, procedureName, <<>>, <<>>, 0)
        /\ ret' = [RetNone EXCEPT !.loc = r.val]
        /\ probes' = {}
        /\ hist' = Recorded(hist, r.st)
        /\ UNCHANGED <<fs, readdirOrder>>

\* MasmDefinitionProvider.provideDefinition(document, position)
DefinitionOp(doc, line, pos) ==
    \E r \in {provideDefinition(St, fs, readdirOrder, doc, line, pos)} :
        /\ SetCaches(r.st)
        /\ op' = Op("provideDefinition", doc, WordAt(line, pos), <<>>, line, pos)
        /\ ret' = [RetNone EXCEPT !.loc = r.val]
        /\ probes' = {}
        /\ hist' = Recorded(hist, r.st)
        /\ UNCHANGED <<fs, readdirOrder>>

\* MasmHoverProvider.provideHover(document, position)
HoverOp(doc, line, pos) ==
    \E r \in {provideHover(St, fs, readdirOrder, doc, line, pos)} :
        /\ SetCaches(r.st)
        /\ op' = Op("provideHover", doc, WordAt(line, pos), <<>>, line, pos)
        /\ ret' = [RetNone EXCEPT !.hover = r.val]
        /\ probes' = {}
        /\ hist' = Recorded(hist, r.st)
        /\ UNCHANGED <<fs, readdirOrder>>

\* the notification handled whatever the language of the document
ChangeOpAnyLanguage(filePath, languageId) ==
    /\ SetCaches(clearCache(St, filePath))
    /\ op' = Op("onDidChangeTextDocument", filePath, languageId, <<>>, <<>>, 0)
    /\ ret' = [RetNone EXCEPT
                  !.deleted = filePath \in DOMAIN fileCache,
                  !.cleared = Cardinality(DOMAIN moduleCache)]
    /\ hist' = [hist EXCEPT !.summary = FunDel(@, filePath), !.resolved = EmptyFun]
    /\ probes' = {}
    /\ UNCHANGED <<fs, readdirOrder>>

\* onDidChangeTextDocument: if (e.document.languageId === 'masm') clearCache(fsPath)
ChangeOp(filePath, languageId) ==
    /\ SetCaches(IF languageId = "masm" THEN clearCache(St, filePath) ELSE St)
    /\ op' = Op("onDidChangeTextDocument", filePath, languageId, <<>>, <<>>, 0)
    /\ ret' = [RetNone EXCEPT
                  !.deleted = languageId = "masm" /\ filePath \in DOMAIN fileCache,
                  !.cleared = IF languageId = "masm"
                              THEN Cardinality(DOMAIN moduleCache) ELSE 0]
    /\ hist' = IF languageId = "masm"
               THEN [hist EXCEPT !.summary = FunDel(@, filePath), !.resolved = EmptyFun]
               ELSE hist
    /\ probes' = {}
    /\ UNCHANGED <<fs, readdirOrder>>

\* deactivate()
DeactivateOp ==
    /\ SetCaches(deactivate(St))
    /\ op' = Op("deactivate", <<>>, "", <<>>, <<>>, 0)
    /\ ret' = RetNone
    /\ hist' = [hist EXCEPT !.summary = EmptyFun, !.resolved = EmptyFun]
    /\ probes' = {}
    /\ UNCHANGED <<fs, readdirOrder>>

\* the disk changes without a notification: a file is written
WriteOp(filePath, content) ==
    /\ IF filePath \in DOMAIN fs THEN fs[filePath] # content ELSE TRUE
    /\ fs' = FunSet(fs, filePath, content)
    /\ op' = Op("write", filePath, "", <<>>, <<>>, 0)
    /\ ret' = RetNone
    /\ probes' = {}
    /\ UNCHANGED <<fileCache, moduleCache, namespaceCache, hist, readdirOrder>>

\* the disk changes without a notification: a file is removed
DeleteOp(filePath) ==
    /\ filePath \in DOMAIN fs
    /\ fs' = FunDel(fs, filePath)
    /\ op' = Op("delete", filePath, "", <<>>, <<>>, 0)
    /\ ret' = RetNone
    /\ probes' = {}
    /\ UNCHANGED <<fileCache, moduleCache, namespaceCache, hist, readdirOrder>>

----------------------------------------------------------------------------
(* Lines and files of the models *)

ProcLineOf(name) == <<"proc", " ", name>>
ReexportLineOf(module, original, exported) ==
    <<"pub", " ", "use", " ", module, "::", original, "->", exported>>
UseLineOf(path) == <<"use", " ">> \o path
DocLineOf(word) == <<"#!", " ", word>>
ExecLineOf(module, name) == <<"exec", ".", module, "::", name>>

DocFile == <<"p", "main.masm">>
FileA == <<"p", "a.masm">>
FileB == <<"p", "b.masm">>

\* every function from a subset of paths to contents
DisksOver(paths, contents) ==
    UNION {[S -> contents] : S \in SUBSET paths}

\* base with the files of extra added
WithFiles(base, extra) ==
    [p \in (DOMAIN base) \cup (DOMAIN extra) |->
        IF p \in DOMAIN extra THEN extra[p] ELSE base[p]]

----------------------------------------------------------------------------
(* SpecCache: the three caches under queries, notifications and disk edits  *)

CacheContents ==
    {<<ProcLineOf("x")>>,
     <<ReexportLineOf("b", "y", "x"), UseLineOf(<<"miden", "foo", "b">>),
       <<"const", " ", "MAX", " ", "=">>>>}
CacheFiles == {FileA, FileB}

InitCache == InitWith(DisksOver(CacheFiles, CacheContents), Orders)

NextCache ==
    \/ \E f \in CacheFiles : IndexOp(f)
    \/ \E m \in {"a", "b"} : ResolveOp(DocFile, m, <<m>>)
    \/ \E f \in CacheFiles, l \in {"masm", "rust"} : ChangeOp(f, l)
    \/ DeactivateOp
    \/ \E f \in CacheFiles, c \in CacheContents : WriteOp(f, c)
    \/ \E f \in CacheFiles : DeleteOp(f)

SpecCache == InitCache /\ [][NextCache]_vars

\* C7: with no invalidation in between, indexing a path again returns a
\* summary equal, field by field, to the one the first indexing returned.
C7_ReindexReturnsFirstSummary ==
    op.name = "parseFile" =>
        /\ op.file \in DOMAIN hist.summary
        /\ ret.summary.imports = hist.summary[op.file].imports
        /\ ret.summary.procedures = hist.summary[op.file].procedures
        /\ ret.summary.reexports = hist.summary[op.file].reexports
        /\ ret.summary.constants = hist.summary[op.file].constants

\* C7 witness: a file indexed again after its content changed on disk
C7_Witness ==
    /\ op.name = "parseFile"
    /\ ret.summary # ParseContent(fs, op.file)
    /\ ret.summary # EmptySummary

\* C8: a file-change notification for p removes the summary of p, keeps every
\* other summary present and unchanged, and empties the resolved-path cache.
C8_ChangeDropsOnlyThatSummary ==
    [][(op'.name = "onDidChangeTextDocument" /\ op'.arg = "masm") =>
          /\ op'.file \notin DOMAIN fileCache'
          /\ DOMAIN fileCache' = DOMAIN fileCache \ {op'.file}
          /\ \A q \in DOMAIN fileCache' : fileCache'[q] = fileCache[q]
          /\ moduleCache' = EmptyFun]_vars

\* C8 witness: the summary of p was dropped with two resolved paths, another
\* summary is still cached
C8_Witness ==
    /\ op.name = "onDidChangeTextDocument" /\ op.arg = "masm"
    /\ ret.deleted /\ ret.cleared = 2
    /\ fileCache # EmptyFun /\ moduleCache = EmptyFun

\* C25: the summary of a file is made by the first query that touches the
\* file, from the content of that moment, and every later query returns it
\* unchanged whatever the disk holds by then; it leaves the cache only
\* through a notification for that same path from a masm document (or when
\* the extension is deactivated), and no step replaces it by another.
C25_SummaryLivesUntilNotified ==
    /\ [][op'.name = "parseFile" =>
            /\ op'.file \in DOMAIN fileCache'
            /\ ret'.summary = fileCache'[op'.file]
            /\ IF op'.file \in DOMAIN fileCache
               THEN ret'.summary = fileCache[op'.file]
               ELSE ret'.summary = ParseContent(fs, op'.file)]_vars
    /\ [][\A f \in DOMAIN fileCache :
            \/ f \in DOMAIN fileCache' /\ fileCache'[f] = fileCache[f]
            \/ /\ f \notin DOMAIN fileCache'
               /\ \/ /\ op'.name = "onDidChangeTextDocument"
                     /\ op'.file = f /\ op'.arg = "masm"
                  \/ op'.name = "deactivate"]_vars

\* C25 witness: a notification from a document that is not masm arrives for
\* a path whose summary is older than the content on disk, and the summary
\* is still cached
C25_Witness ==
    /\ op.name = "onDidChangeTextDocument" /\ op.arg = "rust"
    /\ op.file \in DOMAIN fileCache /\ IsFile(fs, op.file)
    /\ fileCache[op.file] # ParseContent(fs, op.file)
    /\ fileCache[op.file] # EmptySummary

\* C9: a resolve of a pair already resolved returns the first result whatever
\* the disk holds by then, until the resolved-path cache is cleared as a whole;
\* no step removes some entries and keeps others.
C9_ResolveReturnsFirstResult ==
    /\ [](op.name = "resolve" =>
            /\ <<op.file, op.imp>> \in DOMAIN hist.resolved
            /\ ret.path = hist.resolved[<<op.file, op.imp>>])
    /\ [][\/ moduleCache' = EmptyFun
          \/ /\ DOMAIN moduleCache \subseteq DOMAIN moduleCache'
             /\ \A k \in DOMAIN moduleCache : moduleCache'[k] = moduleCache[k]]_vars

\* C9 witness: a resolve returns a path that the disk no longer holds
C9_Witness ==
    /\ op.name = "resolve"
    /\ ret.path # Null
    /\ ~Exists(fs, ret.path)

----------------------------------------------------------------------------
(* SpecGuard: the two providers on lines with comments and string literals  *)

GuardContents ==
    {<<DocLineOf("doc"), ProcLineOf("x")>>, <<ProcLineOf("y"), ProcLineOf("x")>>}
GuardDoc == DocFile :> <<UseLineOf(<<"a">>), ExecLineOf("a", "x")>>

CleanLine == ExecLineOf("a", "x")
CommentLine == <<"#", " ">> \o CleanLine
InStringLine == <<"\"">> \o CleanLine \o <<"\"">>
AfterStringLine == <<"\"", "s", "\"", " ">> \o CleanLine
TrailingCommentLine == CleanLine \o <<" ", "#", " ", "x">>
UseCommentLine == UseLineOf(<<"a">>) \o <<" ", "#!", " ", "a">>
GuardLines ==
    {CleanLine, CommentLine, InStringLine, AfterStringLine, TrailingCommentLine,
     UseCommentLine}

InitGuard ==
    InitWith({WithFiles(GuardDoc, d) : d \in DisksOver({FileA}, GuardContents)}, {"asc"})

NextGuard ==
    \/ \E l \in GuardLines : \E pos \in DOMAIN l : DefinitionOp(DocFile, l, pos)
    \/ \E l \in GuardLines : \E pos \in DOMAIN l : HoverOp(DocFile, l, pos)
    \/ \E f \in {DocFile, FileA} : ChangeOp(f, "masm")
    \/ \E c \in GuardContents : WriteOp(FileA, c)
    \/ DeleteOp(FileA)

SpecGuard == InitGuard /\ [][NextGuard]_vars

\* the text before the word under the cursor holds a '#'
HashBeforeWord(line, pos) ==
    \E i \in DOMAIN line : i < pos /\ line[i] \in {"#", "#!"}
\* the text before the word under the cursor holds an odd number of '"'
OddQuotesBeforeWord(line, pos) ==
    Cardinality({i \in DOMAIN line : i < pos /\ line[i] = "\""}) % 2 = 1

\* C1: when the text before the word under the cursor holds a '#' or an odd
\* number of double quotes, provideDefinition and provideHover return nothing,
\* whatever the caches and the disk hold.
C1_GuardedLookupsReturnNothing ==
    (/\ op.name \in {"provideDefinition", "provideHover"}
     /\ HashBeforeWord(op.line, op.pos) \/ OddQuotesBeforeWord(op.line, op.pos))
        => ret.loc = NoLoc /\ ret.hover = NoHover

\* C1 witness: a hover inside a string literal returns nothing although the
\* procedure under the cursor is defined and documented on disk
C1_Witness ==
    /\ op.name = "provideHover"
    /\ op.line = InStringLine /\ op.arg = "x"
    /\ OddQuotesBeforeWord(op.line, op.pos) /\ ~HashBeforeWord(op.line, op.pos)
    /\ getProcedureDocumentation(fs, FileA, "x") # NoHover
    /\ ret.hover = NoHover

----------------------------------------------------------------------------
(* SpecResolve: imports of the external namespaces, with same-named local   *)
(* files, under disk edits and notifications                                *)

Workspace == <<"ws">>
WorkspaceLine == <<"[workspace]">>
CargoToml == Join(Workspace, <<"Cargo.toml">>)
Crate1 == Join(Workspace, <<"crates", "c1">>)
CoreBuildRs == <<<<"LIB_NAMESPACE", "CORE", "miden", "core">>, <<"ASM_DIR", "CORE", "core">>>>
CoreDirFile == Join(Crate1, <<"asm", "core", "main.masm">>)

IndexDir == Join(RegistrySrc, <<"idx">>)
CoreMem == Join(IndexDir, <<"miden-core-lib-9", "asm", "mem.masm">>)
StdAsm == Join(IndexDir, <<"miden-stdlib-1", "asm">>)
StdBlake == Join(StdAsm, <<"crypto", "hashes", "blake3.masm">>)
StdBlakeMod == Join(StdAsm, <<"crypto", "hashes", "blake3", "mod.masm">>)
StdFlat == Join(StdAsm, <<"blake3.masm">>)
LocalMem == Join(Crate1, <<"asm", "core", "mem.masm">>)
LocalBlake == Join(Crate1, <<"asm", "core", "blake3.masm">>)

ResolveBase ==
    (CargoToml :> <<WorkspaceLine>>) @@ (Join(Crate1, <<"build.rs">>) :> CoreBuildRs)
        @@ (CoreDirFile :> <<>>)
RegistryFiles == {CoreMem, StdBlake, StdBlakeMod, StdFlat}
LocalFiles == {LocalMem, LocalBlake}

CoreImport == <<"miden", "core", "mem">>
StdImport == <<"std", "crypto", "hashes", "blake3">>
ResolveImports == {CoreImport, StdImport, <<"std", "blake3">>, <<"mem">>}

InitResolve ==
    InitWith({WithFiles(ResolveBase, WithFiles(r, l)) :
                 r \in DisksOver(RegistryFiles, {<<>>}),
                 l \in {EmptyFun, [f \in LocalFiles |-> <<>>]}},
             {"asc"})

NextResolve ==
    \/ \E imp \in ResolveImports : ResolveOp(CoreDirFile, imp[Len(imp)], imp)
    \/ ChangeOp(CoreDirFile, "masm")
    \/ \E f \in RegistryFiles \cup LocalFiles : WriteOp(f, <<>>)
    \/ \E f \in RegistryFiles \cup LocalFiles : DeleteOp(f)

SpecResolve == InitResolve /\ [][NextResolve]_vars

\* p lies in the registry, in a version directory of package crateName
InRegistryCrate(p, crateName) ==
    /\ IsPrefix(RegistrySrc, p)
    /\ Len(p) >= Len(RegistrySrc) + 3
    /\ StartsWithCrate(p[Len(RegistrySrc) + 2], crateName)
    /\ p[Len(RegistrySrc) + 3] = "asm"

\* miden::core::<rest...>
IsCoreImport(imp) == Len(imp) >= 3 /\ imp[1] = "miden" /\ imp[2] = "core"

\* C2: resolving miden::core::<rest> consults only the registry, package
\* miden-core-lib: not the namespace directory, no crate, no project root; the
\* result lies in that package, and is absent when the registry holds nothing
\* of it, even though the same-named module exists locally.
C2_CoreOnlyFromRegistry ==
    (op.name = "resolve" /\ IsCoreImport(op.imp)) =>
        /\ probes \subseteq {PRegistry("miden-core-lib"), PModuleCache}
        /\ ret.path # Null => InRegistryCrate(ret.path, "miden-core-lib")
        /\ (/\ PModuleCache \notin probes
            /\ ~\E f \in DOMAIN fs : InRegistryCrate(f, "miden-core-lib"))
              => ret.path = Null

\* C2 witness: miden::core::mem searched and absent while build.rs binds
\* miden::core and mem.masm lies in the bound directory, next to the file
C2_Witness ==
    /\ op.name = "resolve" /\ op.imp = CoreImport
    /\ probes = {PRegistry("miden-core-lib")}
    /\ ret.path = Null
    /\ IsFile(fs, LocalMem)
    /\ findWorkspaceRoot(fs, op.file) = Workspace

\* std::<s1>::...::<sn>
IsStdImport(imp) == Len(imp) >= 2 /\ imp[1] = "std"
\* s1/.../s(n-1)/sn.masm
StdSubPath(imp) == SubSeq(imp, 2, Len(imp) - 1) \o <<Masm(imp[Len(imp)])>>
\* s1/.../s(n-1)/sn/mod.masm, the directory form of the same module
StdModPath(imp) == SubSeq(imp, 2, Len(imp)) \o <<"mod.masm">>
\* the places of the registry where the module of imp may lie
StdPlaces(disk, imp) ==
    {Join(RegistrySrc, <<f[Len(RegistrySrc) + 1], f[Len(RegistrySrc) + 2], "asm">> \o sub) :
        f \in {g \in DOMAIN disk : InRegistryCrate(g, "miden-stdlib")},
        sub \in {StdSubPath(imp), StdModPath(imp)}}

\* C3: resolving std::s1::...::sn searches the registry, package miden-stdlib,
\* at s1/.../sn.masm and nowhere locally: a result is that sub-path in a
\* version of the package (the file, or else its directory form), the file
\* whenever the search finds it on disk, and absent when the registry holds
\* neither.
C3_StdFromRegistrySubPath ==
    (op.name = "resolve" /\ IsStdImport(op.imp)) =>
        /\ probes \subseteq {PRegistry("miden-stdlib"), PModuleCache}
        /\ ret.path # Null =>
              /\ InRegistryCrate(ret.path, "miden-stdlib")
              /\ \/ SubSeq(ret.path, Len(RegistrySrc) + 4, Len(ret.path)) = StdSubPath(op.imp)
                 \/ SubSeq(ret.path, Len(RegistrySrc) + 4, Len(ret.path)) = StdModPath(op.imp)
        /\ PModuleCache \notin probes =>
              /\ ret.path # Null => Exists(fs, ret.path)
              /\ (\E p \in StdPlaces(fs, op.imp) :
                      Exists(fs, p) /\ p[Len(p)] # "mod.masm")
                    => ret.path # Null /\ ret.path[Len(ret.path)] # "mod.masm"
              /\ (\A p \in StdPlaces(fs, op.imp) : ~Exists(fs, p)) => ret.path = Null

\* C3 witness: std::crypto::hashes::blake3 found at crypto/hashes/blake3.masm
\* of miden-stdlib while blake3.masm also lies next to the importing file
C3_Witness ==
    /\ op.name = "resolve" /\ op.imp = StdImport
    /\ probes = {PRegistry("miden-stdlib")}
    /\ ret.path = StdBlake
    /\ IsFile(fs, LocalBlake) /\ IsFile(fs, StdFlat)

----------------------------------------------------------------------------
(* SpecNamespace: a namespace bound by one crate's build.rs, resolved from  *)
(* files of two crates of the workspace; the disk does not change           *)

Crate0 == Join(Workspace, <<"crates", "c0">>)
FooBuildRs == <<<<"LIB_NAMESPACE", "FOO", "miden", "foo">>, <<"ASM_DIR", "FOO", "foolib">>>>
FooNamespace == <<"miden", "foo">>
FooImport == <<"miden", "foo", "bar">>
FooTarget == Join(Crate1, <<"asm", "foolib", "bar.masm">>)
OtherBar == Join(Crate0, <<"asm", "zlib", "bar.masm">>)
FooDirFile == Join(Crate1, <<"asm", "foolib", "main.masm">>)
OtherDirFile == Join(Crate0, <<"asm", "zlib", "main.masm">>)
NamespaceFiles == {FooDirFile, OtherDirFile}

NamespaceBase ==
    (CargoToml :> <<WorkspaceLine>>) @@ (Join(Crate1, <<"build.rs">>) :> FooBuildRs)
        @@ (FooDirFile :> <<>>) @@ (OtherDirFile :> <<>>)

InitNamespace ==
    InitWith({WithFiles(NamespaceBase, d) : d \in DisksOver({FooTarget, OtherBar}, {<<>>})},
             Orders)

NextNamespace ==
    \/ NamespacesOp(Workspace)
    \/ \E f \in NamespaceFiles : ResolveOp(f, "bar", FooImport)
    \/ \E f \in NamespaceFiles : ChangeOp(f, "masm")
    \/ DeactivateOp

SpecNamespace == InitNamespace /\ [][NextNamespace]_vars

\* C4: with FOO_LIB_NAMESPACE = "miden::foo" and ASM_FOO_DIR = "foolib" in the
\* build.rs of one crate, the namespace scan binds miden::foo to that crate's
\* directory and "foolib", and miden::foo::bar resolves, from every file under
\* the workspace root, to <crateDir>/asm/foolib/bar.masm whenever that exists.
C4_BoundNamespaceResolves ==
    /\ op.name = "namespaces" =>
          /\ FooNamespace \in DOMAIN ret.ns
          /\ ret.ns[FooNamespace] = NsInfo(Crate1, "foolib")
    /\ (op.name = "resolve" /\ op.imp = FooImport /\ IsFile(fs, FooTarget))
          => ret.path = FooTarget

\* C26: on an unchanged disk a resolution of miden::foo::bar made when the
\* namespace cache of the workspace root is already filled returns the path
\* the same resolution returns on empty caches: the module in the crate and
\* sub-directory that build.rs binds to miden::foo.
C26_NamespaceCacheIsTransparent ==
    (/\ op.name = "resolve" /\ op.imp = FooImport
     /\ PModuleCache \notin probes
     /\ Workspace \in DOMAIN namespaceCache)
        => ret.path = ResolveUncached(EmptyFun, fs, readdirOrder,
                                      op.file, op.arg, op.imp).val

\* C10: every call of the namespace lookup for a root returns a mapping equal
\* to the one the first call for that root returned.
C10_NamespacesEqualFirstScan ==
    op.name = "namespaces" => ret.ns = hist.ns[op.file]

----------------------------------------------------------------------------
(* SpecSymbol: qualified references through re-exports, along chains and    *)
(* around cycles; the disk does not change                                  *)

Account == <<"p", "account.masm">>
Memory == <<"p", "memory.masm">>
AccountLine == ExecLineOf("account", "get_nonce")
SymbolFiles == {FileA, FileB, Account, Memory}
SymbolNames == {"x", "get_nonce", "get_account_nonce"}

SymbolBase ==
    (DocFile :> <<AccountLine, ExecLineOf("a", "x")>>)
        @@ (Account :> <<ReexportLineOf("memory", "get_account_nonce", "get_nonce")>>)
ContentsA ==
    {<<DocLineOf("doc"), ProcLineOf("x")>>,
     <<ReexportLineOf("b", "x", "x")>>,
     <<ReexportLineOf("a", "x", "x")>>}
ContentsB ==
    {<<ProcLineOf("x")>>,
     <<ReexportLineOf("a", "x", "x")>>,
     <<ReexportLineOf("a", "x", "x"), ProcLineOf("x")>>,
     <<ReexportLineOf("memory", "x", "x")>>}
ContentsMemory ==
    {<<DocLineOf("doc"), ProcLineOf("get_account_nonce")>>,
     <<ReexportLineOf("a", "x", "get_account_nonce"), ReexportLineOf("a", "x", "x")>>}

InitSymbol ==
    InitWith({WithFiles(SymbolBase, (FileA :> a) @@ (FileB :> b) @@ (Memory :> m)) :
                 a \in ContentsA, b \in ContentsB, m \in ContentsMemory},
             {"asc"})

NextSymbol ==
    \/ \E f \in SymbolFiles, n \in SymbolNames : FindSourceOp(f, n)
    \/ \E l \in DOMAIN SymbolBase[DocFile] : DefinitionOp(DocFile, SymbolBase[DocFile][l], 5)
    \/ \E l \in DOMAIN SymbolBase[DocFile] : HoverOp(DocFile, SymbolBase[DocFile][l], 5)

SpecSymbol == InitSymbol /\ [][NextSymbol]_vars

\* file holds a `proc` definition of name
DefinesProc(disk, file, name) ==
    IF IsFile(disk, file)
    THEN \E i \in DOMAIN disk[file] : ProcKeywordName(disk[file][i]) = name
    ELSE FALSE

\* the re-export of name written in file, if there is one
ReexportsOf(disk, file) == ParseContent(disk, file).reexports
\* the file of a module named in a file of the directory of the model
ModuleFile(module) == <<"p", Masm(module)>>
\* the pair a re-export of <<file, name>> points to
NextPair(disk, pair) ==
    <<ModuleFile(ReexportsOf(disk, pair[1])[pair[2]].module),
      ReexportsOf(disk, pair[1])[pair[2]].originalName>>
HasNextPair(disk, pair) ==
    IF pair[2] \in DOMAIN ReexportsOf(disk, pair[1])
    THEN IsFile(disk, NextPair(disk, pair)[1])
    ELSE FALSE

RECURSIVE ChainFrom(_, _, _)
\* the pairs followed from pair, and whether the chain comes back on itself
ChainFrom(disk, pair, seen) ==
    IF pair \in seen THEN [cyclic |-> TRUE, pairs |-> seen]
    ELSE IF HasNextPair(disk, pair)
    THEN ChainFrom(disk, NextPair(disk, pair), seen \cup {pair})
    ELSE [cyclic |-> FALSE, pairs |-> seen \cup {pair}]

RECURSIVE SourceOf(_, _, _)
\* the definition a chain of re-exports ends in: <<file, name>>, or <<>>
SourceOf(disk, pair, seen) ==
    IF pair \in seen THEN <<>>
    ELSE IF HasNextPair(disk, pair)
    THEN SourceOf(disk, NextPair(disk, pair), seen \cup {pair})
    ELSE IF DefinesProc(disk, pair[1], pair[2]) THEN pair
    ELSE <<>>

\* the location of the first `proc` definition of pair[2] in pair[1]
DefinitionLoc(disk, pair) ==
    Loc(pair[1],
        MinOf({i \in DOMAIN disk[pair[1]] : ProcKeywordName(disk[pair[1]][i]) = pair[2]}) - 1,
        2)

\* C5: with `pub use memory::get_account_nonce->get_nonce` in a module and the
\* definition reached through memory (directly, or through further
\* re-exports), both clicking and hovering get_nonce at
\* exec.<module>::get_nonce land on that definition.
C5_ReexportedNameLandsOnDefinition ==
    (/\ op.name \in {"provideDefinition", "provideHover"}
     /\ op.line = AccountLine /\ op.arg = "get_nonce"
     /\ SourceOf(fs, <<Account, "get_nonce">>, {}) # <<>>)
        => /\ op.name = "provideDefinition" =>
                ret.loc = DefinitionLoc(fs, SourceOf(fs, <<Account, "get_nonce">>, {}))
           /\ op.name = "provideHover" =>
                ret.hover =
                    getProcedureDocumentation(fs,
                        SourceOf(fs, <<Account, "get_nonce">>, {})[1],
                        SourceOf(fs, <<Account, "get_nonce">>, {})[2])

\* C6 as stated: on every cyclic re-export graph findProcedureSource terminates
\* and returns absent.
C6_CycleReturnsAbsent ==
    (op.name = "findProcedureSource" /\ ChainFrom(fs, <<op.file, op.arg>>, {}).cyclic)
        => ret.loc = NoLoc

\* C6 amended: findProcedureSource always terminates; on a cyclic re-export
\* graph it returns absent exactly when no file on the chain followed from the
\* starting pair holds a `proc` definition of the name looked up in it, and
\* otherwise the location of such a definition.
C6_CycleTerminates ==
    op.name = "findProcedureSource" =>
        /\ ret.loc # Diverged
        /\ ChainFrom(fs, <<op.file, op.arg>>, {}).cyclic =>
              /\ ret.loc = NoLoc <=>
                    \A pair \in ChainFrom(fs, <<op.file, op.arg>>, {}).pairs :
                        ~DefinesProc(fs, pair[1], pair[2])
              /\ ret.loc # NoLoc =>
                    \E pair \in ChainFrom(fs, <<op.file, op.arg>>, {}).pairs :
                        /\ ret.loc.file = pair[1]
                        /\ ProcKeywordName(fs[pair[1]][ret.loc.line + 1]) = pair[2]

\* C6 witness: a lookup whose chain runs through three files into a cycle
\* returned absent
C6_Witness ==
    /\ op.name = "findProcedureSource"
    /\ ChainFrom(fs, <<op.file, op.arg>>, {}).cyclic
    /\ Cardinality({pair[1] : pair \in ChainFrom(fs, <<op.file, op.arg>>, {}).pairs}) = 3
    /\ ret.loc = NoLoc

----------------------------------------------------------------------------
(* SpecLocal: miden::foo::crypto::bar with the module in the bound          *)
(* directory, in other asm sub-directories, under a project root outside    *)
(* the workspace and in the registry; the disk does not change              *)

DeepImport == <<"miden", "foo", "crypto", "bar">>
DeepSubPath == <<"crypto", "bar.masm">>
App == <<"app">>
AppFile == Join(App, <<"src", "main.masm">>)
BoundBar == Join(Crate1, <<"asm", "foolib">> \o DeepSubPath)
LiteralBar == Join(Crate1, <<"asm", "foo">> \o DeepSubPath)
ZlibBar == Join(Crate0, <<"asm", "zlib">> \o DeepSubPath)
AppBar == Join(App, <<"asm", "foo">> \o DeepSubPath)
LibBar == Join(IndexDir, <<"miden-foo-lib-1", "asm">> \o DeepSubPath)
PlainBar == Join(IndexDir, <<"miden-foo-1", "asm">> \o DeepSubPath)
LocalModules == {BoundBar, LiteralBar, ZlibBar, AppBar, LibBar, PlainBar}
LocalSources == {FooDirFile, OtherDirFile, AppFile}

LocalBase ==
    (CargoToml :> <<WorkspaceLine>>) @@ (FooDirFile :> <<>>) @@ (OtherDirFile :> <<>>)
        @@ (AppFile :> <<>>)

InitLocal ==
    InitWith({WithFiles(LocalBase, WithFiles(b, d)) :
                 b \in {EmptyFun, Join(Crate1, <<"build.rs">>) :> FooBuildRs},
                 d \in DisksOver(LocalModules, {<<>>})},
             Orders)

NextLocal ==
    \/ \E f \in LocalSources : ResolveOp(f, "bar", DeepImport)
    \/ \E f \in LocalSources : ChangeOp(f, "masm")

SpecLocal == InitLocal /\ [][NextLocal]_vars

\* the module files the local searches of a resolution from file may return:
\* <workspaceRoot>/crates/<crate>/asm/<dir>/<subPath> and
\* <projectRoot>/asm/<namespace>/<subPath>
CratePlaces(disk, file, subPath) ==
    IF findWorkspaceRoot(disk, file) = Null THEN {}
    ELSE {f \in DOMAIN disk :
            /\ IsPrefix(Join(findWorkspaceRoot(disk, file), <<"crates">>), f)
            /\ Len(f) = Len(findWorkspaceRoot(disk, file)) + 4 + Len(subPath)
            /\ f[Len(findWorkspaceRoot(disk, file)) + 3] = "asm"
            /\ SubSeq(f, Len(f) - Len(subPath) + 1, Len(f)) = subPath}
ProjectPlaces(disk, file, namespace, subPath) ==
    IF findProjectRoot(disk, file) = Null THEN {}
    ELSE {f \in DOMAIN disk :
            f = Join(findProjectRoot(disk, file), <<"asm", namespace>> \o subPath)}
LocalPlaces(disk, file, namespace, subPath) ==
    CratePlaces(disk, file, subPath) \cup ProjectPlaces(disk, file, namespace, subPath)
\* the files of package crateName in the registry that end in subPath
PackageFiles(disk, crateName, subPath) ==
    {f \in DOMAIN disk :
        /\ InRegistryCrate(f, crateName)
        /\ SubSeq(f, Len(RegistrySrc) + 4, Len(f)) = subPath}

\* C11: for miden::<ns>::<rest> with ns other than core the registry is asked
\* only when no local search found the module, and package miden-<ns>-lib
\* before miden-<ns>: a module that exists locally wins over the registry, and
\* a hit in miden-<ns>-lib wins over one in miden-<ns>.
C11_LocalBeforeRegistry ==
    (op.name = "resolve" /\ op.imp = DeepImport /\ PModuleCache \notin probes) =>
        /\ LocalPlaces(fs, op.file, "foo", DeepSubPath) # {} =>
              /\ ret.path \in LocalPlaces(fs, op.file, "foo", DeepSubPath)
              /\ ~\E pr \in probes : pr[1] = "registry"
        /\ (\E pr \in probes : pr[1] = "registry") =>
              /\ LocalPlaces(fs, op.file, "foo", DeepSubPath) = {}
              /\ PRegistry("miden-foo-lib") \in probes
        /\ PRegistry("miden-foo") \in probes =>
              PackageFiles(fs, "miden-foo-lib", DeepSubPath) = {}
        /\ (/\ LocalPlaces(fs, op.file, "foo", DeepSubPath) = {}
            /\ PackageFiles(fs, "miden-foo-lib", DeepSubPath) # {})
              => ret.path \in PackageFiles(fs, "miden-foo-lib", DeepSubPath)
        /\ (/\ LocalPlaces(fs, op.file, "foo", DeepSubPath) = {}
            /\ PackageFiles(fs, "miden-foo-lib", DeepSubPath) = {})
              => IF PackageFiles(fs, "miden-foo", DeepSubPath) # {}
                 THEN ret.path \in PackageFiles(fs, "miden-foo", DeepSubPath)
                 ELSE ret.path = Null

\* C11 witness: the module lies in a crate of the workspace and in both
\* packages of the registry, and the resolution returned the local file
C11_Witness ==
    /\ op.name = "resolve" /\ op.imp = DeepImport /\ PModuleCache \notin probes
    /\ ret.path = ZlibBar
    /\ IsFile(fs, LibBar) /\ IsFile(fs, PlainBar)
    /\ ~IsFile(fs, BoundBar) /\ ~IsFile(fs, LiteralBar)

\* no build.rs of the workspace of file binds a namespace
Unbound(disk, order, file) ==
    IF findWorkspaceRoot(disk, file) = Null THEN TRUE
    ELSE ScanWorkspace(disk, order,
                       Join(findWorkspaceRoot(disk, file), <<"crates">>)).namespaces
            = EmptyFun

\* C12: with miden::foo bound by no build.rs and crates/<crate>/asm/foo/<subPath>
\* in some crate, miden::foo::<rest> resolves to a file crates/*/asm/foo/<subPath>:
\* the directory literally named foo is preferred to every other asm
\* sub-directory of every crate.
C12_LiteralDirectoryPreferred ==
    (/\ op.name = "resolve" /\ op.imp = DeepImport /\ PModuleCache \notin probes
     /\ Unbound(fs, readdirOrder, op.file)
     /\ \E f \in CratePlaces(fs, op.file, DeepSubPath) : f[Len(f) - Len(DeepSubPath)] = "foo")
        => /\ ret.path \in CratePlaces(fs, op.file, DeepSubPath)
           /\ ret.path[Len(ret.path) - Len(DeepSubPath)] = "foo"

----------------------------------------------------------------------------
(* SpecRelative: bare identifiers and $alias imports, from a file two       *)
(* directories below the root and from one six directories below it; the    *)
(* disk does not change                                                     *)

Near == <<"p", "q">>
Far == <<"d1", "d2", "d3", "d4", "d5", "d6">>
NearFile == Join(Near, <<"main.masm">>)
FarFile == Join(Far, <<"main.masm">>)
BareImport == <<"a">>
AliasImport == <<"$kernel", "a">>
NearMod == Join(Near, <<"a", "mod.masm">>)
NearLibMod == Join(Near, <<"lib", "a", "mod.masm">>)
NearModules ==
    {Join(Near, <<"a.masm">>), Join(Near, <<"lib", "a.masm">>), <<"p", "a.masm">>,
     <<"p", "lib", "a.masm">>, <<"p", "shared_modules", "a.masm">>, <<"lib", "a.masm">>,
     NearMod, NearLibMod}
FarModules ==
    {Join(Far, <<"lib", "a.masm">>),
     <<"d1", "d2", "d3", "d4", "d5", "shared_modules", "a.masm">>,
     <<"d1", "d2", "d3", "d4", "d5", "lib", "a.masm">>,
     <<"d1", "d2", "lib", "a.masm">>, <<"d1", "shared_modules", "a.masm">>,
     <<"d1", "lib", "a.masm">>}
RelativeBase == (NearFile :> <<>>) @@ (FarFile :> <<>>)

InitRelative ==
    InitWith({WithFiles(RelativeBase, d) :
                 d \in DisksOver(NearModules, {<<>>}) \cup DisksOver(FarModules, {<<>>})},
             {"asc"})

NextRelative ==
    \/ \E f \in {NearFile, FarFile}, imp \in {BareImport, AliasImport} :
          ResolveOp(f, "a", imp)
    \/ \E f \in {NearFile, FarFile} : ChangeOp(f, "masm")

SpecRelative == InitRelative /\ [][NextRelative]_vars

\* the four places of a bare identifier, in the order of the claim
BarePlaces(dir, name) ==
    <<dir \o <<Masm(name)>>, dir \o <<"lib", Masm(name)>>,
      Dirname(dir) \o <<Masm(name)>>, Dirname(dir) \o <<"lib", Masm(name)>>>>

\* path is the first place of places that is a file of disk, Null when none is
IsFirstFileOf(disk, places, path) ==
    IF \A i \in DOMAIN places : ~IsFile(disk, places[i]) THEN path = Null
    ELSE \E i \in DOMAIN places :
            /\ path = places[i]
            /\ IsFile(disk, places[i])
            /\ \A j \in 1..(i - 1) : ~IsFile(disk, places[j])

\* C13: a single-identifier import resolves to the first existing file among
\* <dir>/<name>.masm, <dir>/lib/<name>.masm, <parent>/<name>.masm and
\* <parent>/lib/<name>.masm, and to absent when none exists.
C13_BareFirstOfFour ==
    (op.name = "resolve" /\ Len(op.imp) = 1 /\ PModuleCache \notin probes) =>
        IsFirstFileOf(fs, BarePlaces(Dirname(op.file), op.imp[1]), ret.path)

\* C13 witness: the module lies in lib/ of the directory and in the parent
\* directory, and the one in lib/ was returned
C13_Witness ==
    /\ op.name = "resolve" /\ op.imp = BareImport /\ PModuleCache \notin probes
    /\ ret.path = Join(Near, <<"lib", "a.masm">>)
    /\ IsFile(fs, <<"p", "a.masm">>)

\* the directory k levels above dir
Ancestor(dir, k) == SubSeq(dir, 1, Len(dir) - k)
\* the levels an $alias walk from dir visits: at most 5, the root the last
AliasLevels(dir) == IF Len(dir) < 4 THEN Len(dir) + 1 ELSE 5
\* the places of an $alias import, nearest level first: lib/<file>, then
\* ../shared_modules/<file>
AliasPlaces(dir, file) ==
    [n \in 1..(2 * AliasLevels(dir)) |->
        IF n % 2 = 1
        THEN Ancestor(dir, (n - 1) \div 2) \o <<"lib", file>>
        ELSE Dirname(Ancestor(dir, (n - 1) \div 2)) \o <<"shared_modules", file>>]

\* C14: an import $<alias>::<rest> walks up from the directory of the file for
\* at most 5 levels, ending at the root; at each level lib/<file> is checked
\* before ../shared_modules/<file>; the first existing one is returned, absent
\* when there is none.
C14_AliasNearestLevelWins ==
    (op.name = "resolve" /\ op.imp = AliasImport /\ PModuleCache \notin probes) =>
        IsFirstFileOf(fs, AliasPlaces(Dirname(op.file), Masm(op.imp[Len(op.imp)])), ret.path)

\* C14 witness: the module lies only six levels up, and the walk of five
\* levels returned absent
C14_Witness ==
    /\ op.name = "resolve" /\ op.imp = AliasImport /\ op.file = FarFile
    /\ PModuleCache \notin probes
    /\ IsFile(fs, <<"d1", "lib", "a.masm">>)
    /\ ret.path = Null

\* C20: in every resolution rule, where <name>.masm does not exist at a
\* candidate location and <name>/mod.masm does, the resolution returns
\* <name>/mod.masm for that candidate (here: the first candidate of a bare
\* identifier, and the first candidate of an $alias import).
C20_DirectoryFormEverywhere ==
    (op.name = "resolve" /\ op.file = NearFile /\ PModuleCache \notin probes) =>
        /\ (/\ op.imp = BareImport
            /\ ~Exists(fs, Join(Near, <<"a.masm">>))
            /\ IsFile(fs, NearMod)) => ret.path = NearMod
        /\ (/\ op.imp = AliasImport
            /\ ~Exists(fs, Join(Near, <<"lib", "a.masm">>))
            /\ IsFile(fs, NearLibMod)) => ret.path = NearLibMod

----------------------------------------------------------------------------
(* SpecRegistry: the registry with two index directories, two versions of   *)
(* miden-core-lib, and package miden-stdlib next to package                 *)
(* miden-stdlib-sys; the disk does not change                               *)

IndexDir2 == Join(RegistrySrc, <<"idx2">>)
Core9Mem == CoreMem
Core10Mem == Join(IndexDir, <<"miden-core-lib-10", "asm", "mem.masm">>)
Core10MemMod == Join(IndexDir, <<"miden-core-lib-10", "asm", "mem", "mod.masm">>)
Core10MemOther == Join(IndexDir2, <<"miden-core-lib-10", "asm", "mem.masm">>)
StdMem == Join(IndexDir, <<"miden-stdlib-1", "asm", "mem.masm">>)
StdSysMem == Join(IndexDir, <<"miden-stdlib-sys-1", "asm", "mem.masm">>)
RegistryModules == {Core9Mem, Core10Mem, Core10MemMod, Core10MemOther, StdMem, StdSysMem}
StdMemImport == <<"std", "mem">>
RegistryImports == {CoreImport, StdMemImport}

InitRegistry ==
    InitWith({WithFiles(DocFile :> <<>>, d) : d \in DisksOver(RegistryModules, {<<>>})},
             Orders)

NextRegistry ==
    \/ \E imp \in RegistryImports : ResolveOp(DocFile, "mem", imp)
    \/ ChangeOp(DocFile, "masm")

SpecRegistry == InitRegistry /\ [][NextRegistry]_vars

\* the package and the version a version directory of the registry is named for
PackageOf ==
    ("miden-core-lib-10" :> [name |-> "miden-core-lib", version |-> 10])
        @@ ("miden-core-lib-9" :> [name |-> "miden-core-lib", version |-> 9])
        @@ ("miden-stdlib-1" :> [name |-> "miden-stdlib", version |-> 1])
        @@ ("miden-stdlib-sys-1" :> [name |-> "miden-stdlib-sys", version |-> 1])
        @@ ("miden-foo-1" :> [name |-> "miden-foo", version |-> 1])
        @@ ("miden-foo-lib-1" :> [name |-> "miden-foo-lib", version |-> 1])
\* the package an import of the registry model is searched in
PackageFor(imp) == IF imp[1] = "std" THEN "miden-stdlib" ELSE "miden-core-lib"
\* the index directory and the version directory a registry path lies in
IndexOfPath(p) == p[Len(RegistrySrc) + 1]
VersionDirOf(p) == p[Len(RegistrySrc) + 2]
\* the files of disk that hold the module mem of a version of package name:
\* <index>/<name>-<version>/asm/mem.masm or .../asm/mem/mod.masm
Holders(disk, name) ==
    {f \in DOMAIN disk :
        /\ IsPrefix(RegistrySrc, f)
        /\ Len(f) >= Len(RegistrySrc) + 4
        /\ VersionDirOf(f) \in DOMAIN PackageOf
        /\ PackageOf[VersionDirOf(f)].name = name
        /\ SubSeq(f, Len(RegistrySrc) + 3, Len(f)) \in
              {<<"asm", "mem.masm">>, <<"asm", "mem", "mod.masm">>}}

\* C15: the registry locator returns a path whenever a version directory
\* <packageName>-<version> of some index directory holds the sub-path, as a
\* file or as <name>/mod.masm; the path returned lies in the highest such
\* version of its index directory; absent is returned only when no version
\* holds the sub-path.
C15_HighestVersionReturned ==
    (op.name = "resolve" /\ op.imp \in RegistryImports /\ PModuleCache \notin probes) =>
        /\ Holders(fs, PackageFor(op.imp)) # {} => ret.path # Null
        /\ ret.path # Null =>
              /\ ret.path \in Holders(fs, PackageFor(op.imp))
              /\ \A f \in Holders(fs, PackageFor(op.imp)) :
                    IndexOfPath(f) = IndexOfPath(ret.path) =>
                        PackageOf[VersionDirOf(f)].version
                            <= PackageOf[VersionDirOf(ret.path)].version

----------------------------------------------------------------------------
(* SpecFailure: every operation while files disappear, and on disks where   *)
(* Cargo.toml, build.rs or the module is a directory, or crates/ or the     *)
(* registry is a file                                                       *)

RootFile == Join(Workspace, <<"main.masm">>)
FlatLibBar == Join(IndexDir, <<"miden-foo-lib-1", "asm", "bar.masm">>)
BarLine == ExecLineOf("bar", "x")
FailureFull ==
    (CargoToml :> <<WorkspaceLine>>)
        @@ (Join(Crate1, <<"build.rs">>) :> FooBuildRs)
        @@ (FooTarget :> <<DocLineOf("doc"), ProcLineOf("x")>>)
        @@ (FlatLibBar :> <<ProcLineOf("x")>>)
        @@ (RootFile :> <<UseLineOf(<<"miden", "::", "foo", "::", "bar">>)>>)

\* disk without the files at or below path
Without(disk, path) ==
    [f \in {g \in DOMAIN disk : g # path /\ ~IsPrefix(path, g)} |-> disk[f]]
\* disk with path turned into a directory holding one file
AsDirectory(disk, path) == WithFiles(Without(disk, path), Join(path, <<"x">>) :> <<>>)
\* disk with path turned into an empty file
AsFile(disk, path) == WithFiles(Without(disk, path), path :> <<>>)

FailureDisks ==
    {FailureFull,
     AsDirectory(FailureFull, CargoToml),
     AsDirectory(FailureFull, Join(Crate1, <<"build.rs">>)),
     AsDirectory(FailureFull, FooTarget),
     AsFile(FailureFull, Join(Workspace, <<"crates">>)),
     AsFile(Without(FailureFull, FooTarget), RegistrySrc)}
FailureFiles == UNION {DOMAIN d : d \in FailureDisks}
FailureIndexed == {RootFile, FooTarget, Crate1}

InitFailure == InitWith(FailureDisks, {"asc"})

NextFailure ==
    \/ \E f \in FailureIndexed : IndexOp(f)
    \/ ResolveOp(RootFile, "bar", FooImport)
    \/ DefinitionOp(RootFile, BarLine, 5)
    \/ HoverOp(RootFile, BarLine, 5)
    \/ ChangeOp(RootFile, "masm")
    \/ \E f \in FailureFiles : DeleteOp(f)

SpecFailure == InitFailure /\ [][NextFailure]_vars

\* a summary as indexing returns it: the four maps and nothing else
IsSummary(summary) ==
    DOMAIN summary = {"imports", "procedures", "reexports", "constants"}
\* a location, or absent
IsLocationOrAbsent(loc) ==
    \/ loc = NoLoc
    \/ loc.file # Null /\ loc.file # Diverged.file /\ loc.line >= 0 /\ loc.col >= 0
\* a hover text, or absent
IsHoverOrAbsent(hover) == hover = NoHover \/ hover.kind \in {"doc", "fallback"}

\* C16: no failure of the file system leaves indexing, resolution, definition
\* lookup or hover lookup: each ends with a summary, a path, a location, a
\* hover text or absent, and indexing a file that cannot be read (missing, or
\* a directory) and has no cached summary yields the all-empty summary.
C16_FailuresStaySilent ==
    /\ [](/\ IsSummary(ret.summary)
          /\ IsLocationOrAbsent(ret.loc)
          /\ IsHoverOrAbsent(ret.hover)
          /\ \A f \in DOMAIN fileCache : IsSummary(fileCache[f]))
    /\ [][(/\ op'.name = "parseFile"
           /\ op'.file \notin DOMAIN fileCache
           /\ ~IsFile(fs, op'.file)) => ret'.summary = EmptySummary]_vars

\* C16 witness: the index of a directory is the all-empty summary, on a disk
\* where the crates directory is gone as well
C16_Witness ==
    /\ op.name = "parseFile" /\ op.file = Crate1
    /\ ret.summary = EmptySummary
    /\ ~Exists(fs, Join(Crate1, <<"build.rs">>))
    /\ IsDirectory(fs, Crate1)

----------------------------------------------------------------------------
(* SpecFront: definition and hover lookups on the reference lines of one    *)
(* document, with the cursor on every token; the document may define x      *)
(* itself and may import module a, which may define x with or without       *)
(* documentation above it; the disk does not change                         *)

ExportLineOf(name) == <<"export", ".", name>>
CallLineOf(name) == <<"call", ".", name>>
PlainCommentOf(word) == <<"#", " ", word>>
TwoReferences == ExecLineOf("b", "y") \o <<" ">> \o ExecLineOf("a", "x")

\* the reference lines of the document
FrontQueries ==
    <<ExecLineOf("a", "x"), CallLineOf("x"), <<"exec", ".", "x">>, TwoReferences>>
FrontUses == {<<>>, <<UseLineOf(<<"a">>)>>}
FrontLocals == {<<>>, <<ProcLineOf("x")>>, <<ExportLineOf("x")>>}
FrontDocs == {u \o l \o FrontQueries : u \in FrontUses, l \in FrontLocals}
FrontModules ==
    {<<DocLineOf("doc"), ProcLineOf("x")>>,
     <<DocLineOf("doc"), PlainCommentOf("note"), <<>>, DocLineOf("more"), <<" ">>,
       ProcLineOf("x")>>,
     <<DocLineOf("doc"), ProcLineOf("y"), PlainCommentOf("note"), ProcLineOf("x")>>,
     <<DocLineOf("doc"), ExportLineOf("x")>>}

InitFront ==
    InitWith({(DocFile :> d) @@ m : d \in FrontDocs,
                  m \in {EmptyFun} \cup {(FileA :> c) : c \in FrontModules}},
             {"asc"})

\* every line of lines with every token of it under the cursor
Cursors(lines) ==
    UNION {{<<lines[l], pos>> : pos \in DOMAIN lines[l]} : l \in DOMAIN lines}

NextFront ==
    \/ \E q \in Cursors(FrontQueries) : DefinitionOp(DocFile, q[1], q[2])
    \/ \E q \in Cursors(FrontQueries) : HoverOp(DocFile, q[1], q[2])

SpecFront == InitFront /\ [][NextFront]_vars

\* the token at pos is the module name of a qualified reference
OnModuleName(line, pos) == QualifiedAt(line, pos - 2)
\* the token at pos is the procedure name of a qualified reference
OnProcedureName(line, pos) == QualifiedAt(line, pos - 4)

\* C17: with the cursor on the module name of exec.<module>::<proc> or
\* call.<module>::<proc>, <module> different from <proc>, definition lookup
\* returns line 0, column 0 of the file the module resolves to.
C17_ModuleNameGoesToFileStart ==
    (/\ op.name = "provideDefinition"
     /\ OnModuleName(op.line, op.pos)
     /\ Tok(op.line, op.pos) # Tok(op.line, op.pos + 2)
     /\ IsFile(fs, ModuleFile(Tok(op.line, op.pos))))
        => ret.loc = Loc(ModuleFile(Tok(op.line, op.pos)), 0, 0)

\* the first line of the file that defines name with proc or export (0: none)
LocalDefinition(disk, file, name) ==
    IF \E i \in DOMAIN disk[file] : ProcOrExportLine(disk[file][i], name)
    THEN MinOf({i \in DOMAIN disk[file] : ProcOrExportLine(disk[file][i], name)})
    ELSE 0
\* call.<name> ending at pos with no `::` before it on the line
UnqualifiedCall(line, pos) ==
    /\ Tok(line, pos - 2) \in EndsWithCall /\ Tok(line, pos - 1) = "."
    /\ \A i \in 1..pos : Tok(line, i) # "::"
\* a word that is on no use line and is not the end of a qualified reference
BareWord(line, pos) ==
    /\ Tok(line, SkipWs(line, 1)) # "use"
    /\ ~OnProcedureName(line, pos)
\* the lookup is for a name the current file is searched for first
LocalFirst(o) ==
    /\ o.name = "provideDefinition" /\ o.arg # ""
    /\ UnqualifiedCall(o.line, o.pos) \/ BareWord(o.line, o.pos)

\* C18: the patterns are tried in a fixed order.  For an unqualified
\* call.<name> and for a bare word, a procedure defined in the current file
\* is returned whatever the imported modules define, a location in another
\* file is returned only when the current file has no match, and no module
\* is resolved when the current file has one; the qualified reference comes
\* before both: its procedure is found in the module's file even when the
\* current file defines the same name.
C18_CurrentFileFirst ==
    /\ [](/\ (LocalFirst(op) /\ LocalDefinition(fs, op.file, op.arg) # 0)
                => /\ ret.loc # NoLoc
                   /\ ret.loc.file = op.file
                   /\ ret.loc.line = LocalDefinition(fs, op.file, op.arg) - 1
          /\ (LocalFirst(op) /\ ret.loc # NoLoc /\ ret.loc.file # op.file)
                => LocalDefinition(fs, op.file, op.arg) = 0
          /\ (/\ op.name = "provideDefinition"
              /\ OnProcedureName(op.line, op.pos)
              /\ DefinesProc(fs, ModuleFile(Tok(op.line, op.pos - 2)), op.arg))
                => /\ ret.loc # NoLoc
                   /\ ret.loc.file = ModuleFile(Tok(op.line, op.pos - 2)))
    /\ [][(LocalFirst(op') /\ LocalDefinition(fs, op'.file, op'.arg) # 0)
              => moduleCache' = moduleCache]_vars

\* C18 witness: call.x in a document that defines x and imports a, which
\* defines x as well, lands on the document's own definition
C18_Witness ==
    /\ op.name = "provideDefinition" /\ op.line = CallLineOf("x") /\ op.pos = 3
    /\ fs[DocFile][1] = UseLineOf(<<"a">>)
    /\ LocalDefinition(fs, DocFile, "x") = 2
    /\ DefinesProc(fs, FileA, "x")
    /\ ret.loc.file = DocFile /\ ret.loc.line = 1

\* a blank line or a comment line
BlankOrComment(line) ==
    Tok(line, SkipWs(line, 1)) \in {"", "#", "#!"}
\* the lines above line i that the upward walk passes
WalkedAbove(lines, i) ==
    {j \in 1..(i - 1) : \A k \in j..(i - 1) : BlankOrComment(lines[k])}
RECURSIVE Ascending(_)
\* the members of a set of numbers, lowest first
Ascending(S) == IF S = {} THEN <<>> ELSE <<MinOf(S)>> \o Ascending(S \ {MinOf(S)})
\* the text of a doc-comment line: what follows `#!`, trimmed
DocText(line) == Trim(SubSeq(line, SkipWs(line, 1) + 1, Len(line)))
\* the doc-comment lines passed by the walk above line i, in file order
DocLinesAbove(lines, i) ==
    [k \in DOMAIN Ascending({j \in WalkedAbove(lines, i) :
                                Tok(lines[j], SkipWs(lines[j], 1)) = "#!"}) |->
        DocText(lines[Ascending({j \in WalkedAbove(lines, i) :
                                    Tok(lines[j], SkipWs(lines[j], 1)) = "#!"})[k]])]
\* the hover text of name defined on line i of file
HoverTextOf(lines, i, name, file) ==
    IF DocLinesAbove(lines, i) # <<>>
    THEN [kind |-> "doc", lines |-> DocLinesAbove(lines, i), name |-> "", file |-> ""]
    ELSE [kind |-> "fallback", lines |-> <<>>, name |-> name, file |-> file[Len(file)]]

\* C19: hovering the procedure name of a qualified exec/call reference whose
\* module resolves to a file that defines the procedure always yields the
\* hover text: the doc-comment lines found walking upward from the
\* definition, in file order, blank and plain comment lines skipped, the
\* walk ended by any other line; or the fallback naming the procedure and
\* the base name of its file when there is no such line.
C19_HoverAlwaysYieldsText ==
    (/\ op.name = "provideHover"
     /\ OnProcedureName(op.line, op.pos)
     /\ DefinesProc(fs, ModuleFile(Tok(op.line, op.pos - 2)), op.arg))
        => ret.hover =
              HoverTextOf(fs[ModuleFile(Tok(op.line, op.pos - 2))],
                          DefinitionLoc(fs, <<ModuleFile(Tok(op.line, op.pos - 2)),
                                              op.arg>>).line + 1,
                          op.arg, ModuleFile(Tok(op.line, op.pos - 2)))

----------------------------------------------------------------------------
(* SpecRoots: miden::foo::crypto::bar resolved from files with and without  *)
(* a workspace root and a project root above them; the disk does not change *)

PackageLine == <<"[package]">>
WsBar == Join(Workspace, <<"asm", "foo">> \o DeepSubPath)
C0Foo == Join(Crate0, <<"asm", "foo">> \o DeepSubPath)
RootsModules == {WsBar, C0Foo, AppBar, LibBar, PlainBar}
RootsSources == {RootFile, OtherDirFile, AppFile}
RootsBase == (RootFile :> <<>>) @@ (OtherDirFile :> <<>>) @@ (AppFile :> <<>>)

InitRoots ==
    InitWith({WithFiles(RootsBase, WithFiles(c, d)) :
                 c \in {EmptyFun, CargoToml :> <<WorkspaceLine>>,
                        CargoToml :> <<PackageLine>>},
                 d \in DisksOver(RootsModules, {<<>>})},
             Orders)

NextRoots ==
    \/ \E f \in RootsSources : ResolveOp(f, "bar", DeepImport)
    \/ \E f \in RootsSources : ChangeOp(f, "masm")

SpecRoots == InitRoots /\ [][NextRoots]_vars

\* the directories above file, the root included
AncestorsOf(file) == {SubSeq(file, 1, k) : k \in 0..(Len(file) - 1)}
\* no directory above file holds a Cargo.toml with [workspace]
NoWorkspaceAbove(disk, file) ==
    \A d \in AncestorsOf(file) :
        \/ d \o <<"Cargo.toml">> \notin DOMAIN disk
        \/ \A i \in DOMAIN disk[d \o <<"Cargo.toml">>] :
              disk[d \o <<"Cargo.toml">>][i] # WorkspaceLine
\* the directories above file that hold an asm directory
AsmRootsAbove(disk, file) ==
    {d \in AncestorsOf(file) : \E f \in DOMAIN disk : IsPrefix(d \o <<"asm">>, f)}
\* the module under the nearest of them, if it is there
ProjectRootPlace(disk, file, namespace, subPath) ==
    {f \in DOMAIN disk :
        \E d \in AsmRootsAbove(disk, file) :
            /\ \A e \in AsmRootsAbove(disk, file) : Len(e) <= Len(d)
            /\ f = d \o <<"asm", namespace>> \o subPath}
\* what the registry search returns: miden-<ns>-lib, then miden-<ns>
FromRegistry(disk, path, subPath) ==
    IF PackageFiles(disk, "miden-foo-lib", subPath) # {}
    THEN path \in PackageFiles(disk, "miden-foo-lib", subPath)
    ELSE IF PackageFiles(disk, "miden-foo", subPath) # {}
    THEN path \in PackageFiles(disk, "miden-foo", subPath)
    ELSE path = Null

\* C21: with no Cargo.toml declaring [workspace] above the current file,
\* miden::foo::<rest> skips the workspace searches only: a module at
\* <projectRoot>/asm/foo/<subPath> is returned, and otherwise what the
\* registry holds; with no project root above the file only the project-root
\* search is skipped and the registry is still asked.
C21_MissingRootsSkipOnlyTheirSearch ==
    (op.name = "resolve" /\ op.imp = DeepImport /\ PModuleCache \notin probes) =>
        /\ NoWorkspaceAbove(fs, op.file) =>
              /\ probes \cap {PNamespaces, PBound, PCrates} = {}
              /\ PProjectRoot \in probes
              /\ IF ProjectRootPlace(fs, op.file, "foo", DeepSubPath) # {}
                 THEN ret.path \in ProjectRootPlace(fs, op.file, "foo", DeepSubPath)
                 ELSE /\ FromRegistry(fs, ret.path, DeepSubPath)
                      /\ PRegistry("miden-foo-lib") \in probes
        /\ (/\ AsmRootsAbove(fs, op.file) = {}
            /\ ~NoWorkspaceAbove(fs, op.file)
            /\ CratePlaces(fs, op.file, DeepSubPath) = {})
              => /\ FromRegistry(fs, ret.path, DeepSubPath)
                 /\ PNamespaces \in probes
                 /\ PRegistry("miden-foo-lib") \in probes

\* C21 witness: from a file with a project root and no workspace root above
\* it the module under the project root is returned, the registry holding
\* it too; the Cargo.toml of the other tree declares no workspace
C21_Witness ==
    /\ op.name = "resolve" /\ op.file = AppFile /\ op.imp = DeepImport
    /\ PModuleCache \notin probes
    /\ ret.path = AppBar
    /\ IsFile(fs, LibBar)
    /\ IsFile(fs, CargoToml) /\ fs[CargoToml] = <<PackageLine>>

----------------------------------------------------------------------------
(* SpecUse: definition lookups on the import lines of one document, with    *)
(* the cursor on every token; the imported modules exist or not; the disk   *)
(* does not change                                                          *)

ConstLineOf(name) == <<"const", " ", name, " ", "=", " ", "1">>
AliasedUse == <<"use", " ", "a", "->", "al">>
ConstantUse == <<"use", " ", "a", "::", "MAX">>
KernelUse == <<"use", " ", "$kernel", "::", "c">>
CoreUse == <<"use", " ", "miden", "::", "core", "::", "mem">>
UseLines == <<AliasedUse, ConstantUse, KernelUse, CoreUse>>
KernelC == <<"p", "lib", "c.masm">>
UseModulesA == {<<ConstLineOf("MAX")>>, <<ProcLineOf("x"), ConstLineOf("MAX")>>,
                <<ProcLineOf("x")>>}

InitUse ==
    InitWith({(DocFile :> UseLines) @@ a @@ k @@ m :
                 a \in {EmptyFun} \cup {(FileA :> c) : c \in UseModulesA},
                 k \in {EmptyFun, KernelC :> <<>>},
                 m \in {EmptyFun, CoreMem :> <<>>}},
             {"asc"})

NextUse ==
    \/ \E q \in Cursors(UseLines) : DefinitionOp(DocFile, q[1], q[2])
    \/ ChangeOp(DocFile, "masm")

SpecUse == InitUse /\ [][NextUse]_vars

\* the index of the last token of the import path of an import line
PathLast(line) == PathEnd(line, 3)
\* the import path written on the line up to the token at index e
PathUpTo(line, e) == [k \in 1..((e - 3) \div 2 + 1) |-> line[3 + 2 * (k - 1)]]
\* the file an import path resolves to from file (Null: none), by the rules
\* alone, the local name being the last segment
ResolvesTo(disk, order, file, path) ==
    ResolveUncached(EmptyFun, disk, order, file, path[Len(path)], path).val
\* the line of `const <name> =` in file (0: none)
ConstantLine(disk, file, name) ==
    IF \E i \in DOMAIN disk[file] : ConstMatch(disk[file][i]) = name
    THEN MinOf({i \in DOMAIN disk[file] : ConstMatch(disk[file][i]) = name})
    ELSE 0
\* the cursor is on the alias, on the upper-snake-case final segment, on
\* another segment of the path
OnAlias(line, pos) == Tok(line, pos - 1) = "->"
OnFinalConstant(line, pos) == pos = PathLast(line) /\ IsUpperSnake(Tok(line, pos))
OnOtherSegment(line, pos) ==
    /\ pos \in 3..PathLast(line) /\ Tok(line, pos) # "::"
    /\ ~OnFinalConstant(line, pos)

\* C22: on an import line, clicking the alias returns the start of the file
\* the full path resolves to; clicking the upper-snake-case final segment
\* returns the line of `const <NAME> =` in the module of the path without
\* that segment; clicking any other segment returns the start of the file
\* the full path resolves to.
C22_ImportLineDispatch ==
    (op.name = "provideDefinition" /\ Tok(op.line, 1) = "use") =>
        /\ (/\ OnAlias(op.line, op.pos) \/ OnOtherSegment(op.line, op.pos)
            /\ ResolvesTo(fs, readdirOrder, op.file,
                          PathUpTo(op.line, PathLast(op.line))) # Null)
              => ret.loc = Loc(ResolvesTo(fs, readdirOrder, op.file,
                                          PathUpTo(op.line, PathLast(op.line))), 0, 0)
        /\ (/\ OnFinalConstant(op.line, op.pos)
            /\ ResolvesTo(fs, readdirOrder, op.file,
                          PathUpTo(op.line, op.pos - 2)) # Null
            /\ IsFile(fs, ResolvesTo(fs, readdirOrder, op.file,
                                     PathUpTo(op.line, op.pos - 2)))
            /\ ConstantLine(fs, ResolvesTo(fs, readdirOrder, op.file,
                                           PathUpTo(op.line, op.pos - 2)),
                            op.arg) # 0)
              => /\ ret.loc.file = ResolvesTo(fs, readdirOrder, op.file,
                                              PathUpTo(op.line, op.pos - 2))
                 /\ ret.loc.line =
                        ConstantLine(fs, ret.loc.file, op.arg) - 1

----------------------------------------------------------------------------
(* SpecSegments: imports that differ in an interior segment only, under the *)
(* $alias rule and the miden:: rule; the disk does not change               *)

KernelCryptoBar == <<"$kernel", "crypto", "bar">>
KernelHashesBar == <<"$kernel", "hashes", "bar">>
MidenHashesBar == <<"miden", "foo", "hashes", "bar">>
SegmentImports == {KernelCryptoBar, KernelHashesBar, DeepImport, MidenHashesBar}
LibFlatBar == <<"p", "lib", "bar.masm">>
LibCryptoBar == <<"p", "lib", "crypto", "bar.masm">>
LibHashesBar == <<"p", "lib", "hashes", "bar.masm">>
RegistryHashesBar == Join(IndexDir, <<"miden-foo-lib-1", "asm", "hashes", "bar.masm">>)
SegmentModules == {LibFlatBar, LibCryptoBar, LibHashesBar, LibBar, RegistryHashesBar}

InitSegments ==
    InitWith({WithFiles(DocFile :> <<>>, d) : d \in DisksOver(SegmentModules, {<<>>})},
             {"asc"})

NextSegments ==
    \/ \E imp \in SegmentImports : ResolveOp(DocFile, "bar", imp)
    \/ ChangeOp(DocFile, "masm")

SpecSegments == InitSegments /\ [][NextSegments]_vars

\* the segments of an import between the rule's prefix and the last one
Interior(imp) ==
    IF imp[1] = "miden" THEN SubSeq(imp, 3, Len(imp) - 1)
    ELSE SubSeq(imp, 2, Len(imp) - 1)
\* path ends in <interior>/<last>.masm or <interior>/<last>/mod.masm
UnderInterior(path, imp) ==
    \/ /\ Len(path) > Len(Interior(imp))
       /\ SubSeq(path, Len(path) - Len(Interior(imp)), Len(path))
             = Interior(imp) \o <<Masm(imp[Len(imp)])>>
    \/ /\ Len(path) > Len(Interior(imp)) + 1
       /\ SubSeq(path, Len(path) - Len(Interior(imp)) - 1, Len(path))
             = Interior(imp) \o <<imp[Len(imp)], "mod.masm">>

\* C23: under every rule a multi-segment import is searched at
\* <interior segments>/<last segment>.masm: the path found for it lies in
\* the sub-directory its interior segments name, so two imports that differ
\* in an interior segment are never found at the same file.
C23_InteriorSegmentsAreDirectories ==
    (op.name = "resolve" /\ PModuleCache \notin probes /\ ret.path # Null)
        => UnderInterior(ret.path, op.imp)

----------------------------------------------------------------------------
(* SpecIndex: one document of up to three import and re-export lines in     *)
(* every order, indexed and re-indexed; the disk does not change            *)

MaxIndexLines == 3
IndexLines ==
    {<<"use", " ", "miden", "::", "foo", "::", "a">>,
     <<"use", " ", "b", "->", "a">>,
     <<"use", " ", "a", "::", "x", "->", "y">>,
     ReexportLineOf("a", "x", "y"),
     ReexportLineOf("b", "x", "x")}
IndexContents == UNION {[1..n -> IndexLines] : n \in 1..MaxIndexLines}

InitIndex == InitWith({DocFile :> c : c \in IndexContents}, {"asc"})

NextIndex ==
    \/ IndexOp(DocFile)
    \/ ChangeOp(DocFile, "masm")

SpecIndex == InitIndex /\ [][NextIndex]_vars

\* the import lines of lines that declare key: as last segment, or as alias
Declaring(lines, key) ==
    {i \in DOMAIN lines :
        /\ UseMatch(lines[i]).ok
        /\ \/ UseMatch(lines[i]).fullPath[Len(UseMatch(lines[i]).fullPath)] = key
           \/ UseMatch(lines[i]).alias = key}
\* the re-export lines of lines
Reexporting(lines) == {i \in DOMAIN lines : ReexportMatch(lines[i]).ok}

\* C24: in every summary the source module of each re-export is a key of
\* imports: it maps to the module name itself when no import line of the
\* file declares the key, and to a declared full path when an import line
\* for the key stands before or after the re-export line.
C24_ReexportModuleIsImported ==
    \A f \in DOMAIN fileCache :
        /\ \A e \in DOMAIN fileCache[f].reexports :
              \E i \in Reexporting(fs[f]) :
                  /\ ReexportMatch(fs[f][i]).exportedName = e
                  /\ ReexportMatch(fs[f][i]).module = fileCache[f].reexports[e].module
        /\ \A i \in Reexporting(fs[f]) :
              /\ MapHas(fileCache[f].imports, ReexportMatch(fs[f][i]).module)
              /\ IF Declaring(fs[f], ReexportMatch(fs[f][i]).module) = {}
                 THEN MapGet(fileCache[f].imports, ReexportMatch(fs[f][i]).module)
                         = <<ReexportMatch(fs[f][i]).module>>
                 ELSE \E j \in Declaring(fs[f], ReexportMatch(fs[f][i]).module) :
                         MapGet(fileCache[f].imports, ReexportMatch(fs[f][i]).module)
                            = UseMatch(fs[f][j]).fullPath

\* C24 witness: module a is re-exported on the first line and imported on
\* the line after it: the summary returned maps a to the imported path
C24_Witness ==
    /\ op.name = "parseFile"
    /\ fs[DocFile] = <<ReexportLineOf("a", "x", "y"),
                       <<"use", " ", "miden", "::", "foo", "::", "a">>>>
    /\ MapGet(ret.summary.imports, "a") = <<"miden", "foo", "a">>
    /\ ret.summary.reexports["y"].module = "a"

----------------------------------------------------------------------------
(* SpecAlias: the bare imports a and b of two documents resolved under      *)
(* their own name and under an alias; the disk does not change              *)

FileAl == <<"p", "al.masm">>
LibDoc == <<"p", "lib", "main.masm">>
AliasSources == {DocFile, LibDoc}
AliasImports == {<<"a">>, <<"b">>}
LocalNames == {"a", "b", "al"}
AliasModules == {FileA, FileB, FileAl}

InitAlias ==
    InitWith({WithFiles((DocFile :> <<<<"use", " ", "a", "->", "al">>>>)
                            @@ (LibDoc :> <<>>), d) :
                 d \in DisksOver(AliasModules, {<<>>})},
             {"asc"})

NextAlias ==
    \/ \E f \in AliasSources, n \in LocalNames, imp \in AliasImports : ResolveOp(f, n, imp)
    \/ \E f \in AliasSources : ChangeOp(f, "masm")

SpecAlias == InitAlias /\ [][NextAlias]_vars

\* C27: the path a resolution returns is decided by the current file, the
\* import expression and the disk, not by the local name: it is the path
\* computed for the import under its own last segment, and a memoized path
\* is the one the call itself would have computed.
C27_LocalNameDoesNotMatter ==
    op.name = "resolve" =>
        /\ ret.path = ResolveUncached(EmptyFun, fs, readdirOrder, op.file,
                                      op.imp[Len(op.imp)], op.imp).val
        /\ ret.path = ResolveUncached(EmptyFun, fs, readdirOrder, op.file,
                                      op.arg, op.imp).val

----------------------------------------------------------------------------
(* SpecStale: definition lookups through a module whose content is          *)
(* rewritten on disk behind the cached summaries                            *)

StaleLine == ExecLineOf("a", "x")
StaleContents ==
    {<<ReexportLineOf("b", "x", "x")>>,
     <<DocLineOf("x")>>,
     <<DocLineOf("doc"), ProcLineOf("x")>>,
     <<ExportLineOf("x")>>}
StaleBase == (DocFile :> <<StaleLine>>) @@ (FileB :> <<ProcLineOf("y")>>)

InitStale == InitWith({WithFiles(StaleBase, FileA :> c) : c \in StaleContents}, {"asc"})

NextStale ==
    \/ DefinitionOp(DocFile, StaleLine, 5)
    \/ \E f \in {FileA, FileB} : IndexOp(f)
    \/ \E f \in {DocFile, FileA} : ChangeOp(f, "masm")
    \/ \E c \in StaleContents : WriteOp(FileA, c)

SpecStale == InitStale /\ [][NextStale]_vars

\* the token of line at column col is the name the line defines or re-exports
AtDefinedName(line, col) ==
    /\ col + 1 \in DOMAIN line
    /\ \/ ProcMatch(line) # "" /\ line[col + 1] = ProcMatch(line)
       \/ /\ ReexportMatch(line).ok
          /\ line[col + 1] \in {ReexportMatch(line).exportedName,
                               ReexportMatch(line).originalName}

\* C28: a location returned by a definition lookup points, in the content
\* the file has at that moment, at a definition line (proc, pub proc,
\* export.) or a re-export line, with the column at the name, whatever was
\* queried, notified or written to the disk before.
C28_LocationIsADefinition ==
    (op.name = "provideDefinition" /\ ret.loc # NoLoc) =>
        /\ IsFile(fs, ret.loc.file)
        /\ ret.loc.line + 1 \in DOMAIN fs[ret.loc.file]
        /\ AtDefinedName(fs[ret.loc.file][ret.loc.line + 1], ret.loc.col)

----------------------------------------------------------------------------
(* SpecFrame: the namespace cache under resolutions, indexing,              *)
(* notifications, deactivation and a build.rs that is removed or rewritten  *)

FooBuildRsFile == Join(Crate1, <<"build.rs">>)
ZlibBuildRs == <<<<"LIB_NAMESPACE", "FOO", "miden", "foo">>, <<"ASM_DIR", "FOO", "zlib">>>>
FrameBase ==
    (CargoToml :> <<WorkspaceLine>>) @@ (FooDirFile :> <<>>) @@ (OtherDirFile :> <<>>)
        @@ (FooTarget :> <<>>) @@ (OtherBar :> <<>>)

InitFrame ==
    InitWith({WithFiles(FrameBase, b) :
                 b \in {EmptyFun, FooBuildRsFile :> FooBuildRs}},
             {"asc"})

NextFrame ==
    \/ NamespacesOp(Workspace)
    \/ \E f \in NamespaceFiles : ResolveOp(f, "bar", FooImport)
    \/ \E f \in NamespaceFiles : IndexOp(f)
    \/ \E f \in NamespaceFiles : ChangeOp(f, "masm")
    \/ DeactivateOp
    \/ \E c \in {FooBuildRs, ZlibBuildRs} : WriteOp(FooBuildRsFile, c)
    \/ DeleteOp(FooBuildRsFile)

SpecFrame == InitFrame /\ [][NextFrame]_vars

\* C29: an entry of the namespace cache, once written for a root, is never
\* removed or changed: no notification and no deactivation touches it, while
\* deactivation empties the summary cache and the resolved-path cache.
C29_NamespaceEntryIsPermanent ==
    /\ [][\A root \in DOMAIN namespaceCache :
             /\ root \in DOMAIN namespaceCache'
             /\ namespaceCache'[root] = namespaceCache[root]]_vars
    /\ [][op'.name = "deactivate" =>
             fileCache' = EmptyFun /\ moduleCache' = EmptyFun]_vars

\* C29 witness: after a deactivation the entry of the root still holds the
\* binding of a build.rs that is no longer on disk, the other caches empty
C29_Witness ==
    /\ op.name = "deactivate"
    /\ Workspace \in DOMAIN namespaceCache
    /\ namespaceCache[Workspace] # EmptyFun
    /\ ~IsFile(fs, FooBuildRsFile)
    /\ fileCache = EmptyFun /\ moduleCache = EmptyFun

----------------------------------------------------------------------------
(* SpecFallback: exec.a::x where a re-exports x from a module that is       *)
(* missing, lacks the original, or re-exports it back; the disk does not    *)
(* change                                                                   *)

FallbackLine == ExecLineOf("a", "x")
FallbackA ==
    {<<ReexportLineOf("b", "x", "x")>>,
     <<ProcLineOf("y"), ReexportLineOf("b", "y", "x")>>,
     <<ReexportLineOf("c", "x", "x")>>,
     <<ReexportLineOf("a", "x", "x")>>}
FallbackB ==
    {<<ProcLineOf("x")>>,
     <<ProcLineOf("get_nonce")>>,
     <<ReexportLineOf("a", "x", "x")>>,
     <<ReexportLineOf("a", "x", "y"), ReexportLineOf("c", "x", "x")>>}

InitFallback ==
    InitWith({WithFiles((DocFile :> <<FallbackLine>>) @@ (FileA :> a), b) :
                 a \in FallbackA,
                 b \in {EmptyFun} \cup {(FileB :> c) : c \in FallbackB}},
             {"asc"})

NextFallback ==
    \/ DefinitionOp(DocFile, FallbackLine, 5)
    \/ \E f \in {FileA, FileB} : IndexOp(f)
    \/ \E f \in {DocFile, FileA} : ChangeOp(f, "masm")

SpecFallback == InitFallback /\ [][NextFallback]_vars

\* no file on the chain of re-exports from pair defines the name asked of it
NoSourceFrom(disk, pair) ==
    \A q \in ChainFrom(disk, pair, {}).pairs : ~DefinesProc(disk, q[1], q[2])
\* the lines of file that re-export name
ReexportLinesOf(disk, file, name) ==
    {i \in DOMAIN disk[file] :
        /\ ReexportMatch(disk[file][i]).ok
        /\ ReexportMatch(disk[file][i]).exportedName = name}

\* C30: with the cursor on the procedure name of a qualified reference whose
\* module resolves, the name a re-export of that module and its source
\* lookup without result (source module missing, original missing, cycle),
\* the lookup returns the re-export line of the module, not nothing.
C30_ReexportLineWhenNoSource ==
    (/\ op.name = "provideDefinition"
     /\ OnProcedureName(op.line, op.pos)
     /\ IsFile(fs, ModuleFile(Tok(op.line, op.pos - 2)))
     /\ ReexportLinesOf(fs, ModuleFile(Tok(op.line, op.pos - 2)), op.arg) # {}
     /\ NoSourceFrom(fs, <<ModuleFile(Tok(op.line, op.pos - 2)), op.arg>>))
        => /\ ret.loc # NoLoc
           /\ ret.loc.file = ModuleFile(Tok(op.line, op.pos - 2))
           /\ ret.loc.line + 1 \in ReexportLinesOf(fs, ret.loc.file, op.arg)

\* C30 witness: a re-exports x from b and b re-exports it back from a: the
\* lookup lands on the re-export line of a
C30_Witness ==
    /\ op.name = "provideDefinition" /\ op.line = FallbackLine /\ op.pos = 5
    /\ fs[FileA] = <<ProcLineOf("y"), ReexportLineOf("b", "y", "x")>>
    /\ IsFile(fs, FileB)
    /\ fs[FileB] = <<ReexportLineOf("a", "x", "y"), ReexportLineOf("c", "x", "x")>>
    /\ ret.loc.file = FileA /\ ret.loc.line = 1

====
